---- MODULE Spec2Model ----
(***************************************************************************)
(* The load-testing engine of shared/src/benchmarks.rs: LoadTester,        *)
(* its virtual-user tasks, and the BenchmarkMetrics aggregate.             *)
(*                                                                         *)
(* Time is the wall clock in milliseconds.  The clock advances while every  *)
(* task is suspended in a sleep or in a request in flight; the code between *)
(* two await points takes no time for the timers, but a read of Utc::now()  *)
(* may find the clock up to MaxLag ms past where it was last seen.          *)
(*                                                                         *)
(* f64 results are kept exact: a finite value is a reduced fraction        *)
(* [k |-> "num", n, d], and the two IEEE results of a division by zero     *)
(* are [k |-> "nan"] (0.0 / 0.0) and [k |-> "inf"] (x / 0.0, x > 0).       *)
(***************************************************************************)
EXTENDS Integers, Sequences, FiniteSets, TLC

\* ------------------------------------------------------------- bounds
MaxUsers == 2
MaxDuration == 1
MaxRampUp == 1
\* requests the target answers before it goes down for the rest of the run
MaxAnswered == 2
\* latency (ms) of a target that answers promptly
FastLatencyMs == 490
\* latency (ms) of a target that answers late, but before the client timeout
SlowLatencyMs == 2900
\* samples folded into an aggregate in MetricsSpec
MaxFold == 4
\* samples of an aggregate whose percentiles are taken in PercentileSpec
MaxRank == 50
\* results added per framework to a FrameworkComparison
MaxResults == 2
\* endpoints of a list handed to select_weighted_endpoint on its own
MaxEndpoints == 3
\* concurrent_users and ramp_up_seconds when only the start delays are computed
MaxDelayUsers == 7
MaxDelayRampUp == 3
\* samples of one worker when returned workers are merged in any order
MaxMergeLen == 1
\* ms by which a read of the wall clock can lie past the instant the clock was
\* last looked at, with no timer awaited in between
MaxLag == 1

\* ---------------------------------------------------- program constants
\* reqwest client timeout, Duration::from_secs(30)
RequestTimeoutMs == 30000
\* tokio::time::sleep(Duration::from_millis(10)) between requests
PauseMs == 10
MsPerSecond == 1000
\* tokio::time::sleep(Duration::from_secs(5)) after each scenario of a framework
ScenarioPauseMs == 5000
\* tokio::time::sleep(Duration::from_secs(30)) between the two frameworks
FrameworkPauseMs == 30000
BytesPerMb == 1048576

VARIABLES
    config,        \* LoadTester.config
    now,           \* wall clock, ms
    spawned,       \* tasks pushed so far by the spawn loop (next user_id)
    joined,        \* tasks awaited so far by the join loop
    result,        \* "none" while run_benchmark runs, then what it returned
    metrics,       \* the BenchmarkMetrics of run_benchmark
    wpc,           \* per task: where the task is
    wake,          \* per task: the instant its sleep or request ends
    user_start,    \* per task: user_start
    inflight,      \* per task: the request being sent and the answer it gets
    user_metrics,  \* per task: user_metrics (kept as last written once the task ends)
    comparison,    \* the FrameworkComparison and the report generated from it
    scenarios,     \* main.rs: the arguments and the scenario configs built from them
    selected,      \* the last call of select_weighted_endpoint: its draw and its result
    delays,        \* the user_start_delay computed for user_id 0, 1, ... so far
    ranked,        \* the last call of percentile_response_time_ms: its argument and its result
    tool           \* main.rs: where run_comparison is and what it has done

vars == <<config, now, spawned, joined, result, metrics, wpc, wake,
          user_start, inflight, user_metrics, comparison, scenarios, selected, delays, ranked,
          tool>>

\* the state outside run_benchmark
aux == <<comparison, scenarios, selected, delays, ranked, tool>>

\* ------------------------------------------------------------- f64
NaN == [k |-> "nan"]
Inf == [k |-> "inf"]

RECURSIVE Gcd(_, _)
Gcd(a, b) == IF b = 0 THEN a ELSE Gcd(b, a % b)

Num(n, d) == LET g == Gcd(n, d) IN [k |-> "num", n |-> n \div g, d |-> d \div g]

Zero == Num(0, 1)

\* n / d on non-negative f64 operands
FDiv(n, d) ==
    IF d = 0 THEN (IF n = 0 THEN NaN ELSE Inf) ELSE Num(n, d)

\* ------------------------------------------------------------- config
\* weights are in half units of the random draw: the draw of
\* select_weighted_endpoint ranges over the integers of [0, total)
EndpointLists ==
    { << >>,
      << [path |-> "/health", weight |-> 0] >>,
      << [path |-> "/health", weight |-> 2] >>,
      << [path |-> "/health", weight |-> 2], [path |-> "/graphql", weight |-> 2] >> }

Configs ==
    [ concurrent_users : 0..MaxUsers,
      duration_seconds : 0..MaxDuration,
      ramp_up_seconds  : 0..MaxRampUp,
      endpoints        : EndpointLists ]

Users == 0..(MaxUsers - 1)

\* ------------------------------------------------------------- RequestMetrics
duration_ms(m) == m.end_time - m.start_time

\* response.status().is_success()
is_success(status) == status >= 200 /\ status <= 299

\* format!("HTTP_{}", status_code)
ErrorKey(status_code) == "HTTP_" \o ToString(status_code)

\* ------------------------------------------------------------- wall clock
\* Utc::now() read with no timer awaited since the clock was last looked at:
\* the wall clock runs while the program computes, and every read may fall
\* into a later millisecond than the one before it
ClockReads(t) == t..(t + MaxLag)

ClockRead == now' \in ClockReads(now)

\* ------------------------------------------------------------- BenchmarkMetrics
\* start_time and end_time are two reads of Utc::now(), one after the other
BenchmarkMetrics_new(framework, start_time, end_time) ==
    [ framework |-> framework,
      start_time |-> start_time,
      end_time |-> end_time,
      total_requests |-> 0,
      successful_requests |-> 0,
      failed_requests |-> 0,
      total_bytes_received |-> 0,
      request_metrics |-> << >>,
      error_counts |-> [x \in {} |-> 0] ]

\* *self.error_counts.entry(error_key).or_insert(0) += 1
BumpError(ec, key) ==
    IF key \in DOMAIN ec
    THEN [ec EXCEPT ![key] = @ + 1]
    ELSE [x \in (DOMAIN ec) \cup {key} |-> IF x = key THEN 1 ELSE ec[x]]

\* add_request with the failure branch not counting the failure
add_request_failure_uncounted(m, s) ==
    [ m EXCEPT
        !.total_requests = @ + 1,
        !.total_bytes_received = @ + s.response_size,
        !.successful_requests = IF s.success THEN @ + 1 ELSE @,
        !.error_counts = IF s.success THEN @ ELSE BumpError(@, ErrorKey(s.status_code)),
        !.request_metrics = Append(@, s) ]

\* add_request with the failure branch not touching the error histogram
add_request_no_histogram(m, s) ==
    [ m EXCEPT
        !.total_requests = @ + 1,
        !.total_bytes_received = @ + s.response_size,
        !.successful_requests = IF s.success THEN @ + 1 ELSE @,
        !.failed_requests = IF s.success THEN @ ELSE @ + 1,
        !.request_metrics = Append(@, s) ]

\* add_request entering every sample's status into the histogram
add_request_every_status(m, s) ==
    [ m EXCEPT
        !.total_requests = @ + 1,
        !.total_bytes_received = @ + s.response_size,
        !.successful_requests = IF s.success THEN @ + 1 ELSE @,
        !.failed_requests = IF s.success THEN @ ELSE @ + 1,
        !.error_counts = BumpError(@, ErrorKey(s.status_code)),
        !.request_metrics = Append(@, s) ]

\* add_request counting the request inside the success branch
add_request_total_on_success(m, s) ==
    [ m EXCEPT
        !.total_requests = IF s.success THEN @ + 1 ELSE @,
        !.total_bytes_received = @ + s.response_size,
        !.successful_requests = IF s.success THEN @ + 1 ELSE @,
        !.failed_requests = IF s.success THEN @ ELSE @ + 1,
        !.error_counts = IF s.success THEN @ ELSE BumpError(@, ErrorKey(s.status_code)),
        !.request_metrics = Append(@, s) ]

add_request(m, s) ==
    [ m EXCEPT
        !.total_requests = @ + 1,
        !.total_bytes_received = @ + s.response_size,
        !.successful_requests = IF s.success THEN @ + 1 ELSE @,
        !.failed_requests = IF s.success THEN @ ELSE @ + 1,
        !.error_counts = IF s.success THEN @ ELSE BumpError(@, ErrorKey(s.status_code)),
        !.request_metrics = Append(@, s) ]

finalize(m, t) == [m EXCEPT !.end_time = t]

\* (end_time - start_time).num_milliseconds()
duration_millis(m) == m.end_time - m.start_time

requests_per_second(m) ==
    FDiv(m.total_requests * MsPerSecond, duration_millis(m))

RECURSIVE SumDurations(_)
SumDurations(seq) ==
    IF seq = << >> THEN 0 ELSE duration_ms(Head(seq)) + SumDurations(Tail(seq))

average_response_time_ms(m) ==
    IF m.request_metrics = << >>
    THEN Zero
    ELSE FDiv(SumDurations(m.request_metrics), Len(m.request_metrics))

success_rate(m) ==
    IF m.total_requests = 0
    THEN Zero
    ELSE FDiv(m.successful_requests * 100, m.total_requests)

throughput_mb_per_second(m) ==
    FDiv(m.total_bytes_received * MsPerSecond, BytesPerMb * duration_millis(m))

\* durations.sort_by(partial_cmp): insertion into an ascending sequence
RECURSIVE InsertSorted(_, _)
InsertSorted(x, seq) ==
    IF seq = << >> THEN << x >>
    ELSE IF x < Head(seq) THEN << x >> \o seq
    ELSE << Head(seq) >> \o InsertSorted(x, Tail(seq))

\* the durations left in the order of the stored samples
SortedDurations_unsorted(seq) == [j \in 1..Len(seq) |-> duration_ms(seq[j])]

RECURSIVE SortedDurations(_)
SortedDurations(seq) ==
    IF seq = << >> THEN << >>
    ELSE InsertSorted(duration_ms(seq[Len(seq)]), SortedDurations(SubSeq(seq, 1, Len(seq) - 1)))

\* the index taken over the len - 1 gaps between the sorted samples
PercentileIndex_over_gaps(percentile, len) == (percentile * (len - 1)) \div 100

RECURSIVE Pow2(_)
Pow2(e) == IF e = 0 THEN 1 ELSE 2 * Pow2(e - 1)

RECURSIVE Pow2Mod(_, _)
Pow2Mod(e, m) == IF e = 0 THEN 1 % m ELSE (2 * Pow2Mod(e - 1, m)) % m

\* the s >= from with 2^-s <= percentile / 100 < 2^(1 - s), for 0 < percentile <= 100
RECURSIVE BinadeShift(_, _)
BinadeShift(percentile, from) ==
    IF percentile * Pow2(from) >= 100 THEN from ELSE BinadeShift(percentile, from + 1)

\* the j >= from with 2^j <= k < 2^(j + 1), for k >= 1
RECURSIVE Log2Floor(_, _)
Log2Floor(k, from) == IF Pow2(from + 1) > k THEN from ELSE Log2Floor(k, from + 1)

\* The f64 quotient percentile / 100.0 is the multiple of 2^-(52 + s) nearest
\* to percentile / 100 (a tie to the even multiple), s the BinadeShift.  The
\* result is 100 * 2^(52 + s) times the quotient's error: 0 when the quotient
\* is exact, negative when the f64 is below percentile / 100.
QuotientError(percentile) ==
    IF percentile = 0 THEN 0
    ELSE LET s == BinadeShift(percentile, 0)
             rem == (percentile * Pow2Mod(52 + s, 200)) % 200
             r == rem % 100
         IN  IF r < 50 THEN 0 - r
             ELSE IF r > 50 THEN 100 - r
             ELSE IF rem < 100 THEN 0 - 50 ELSE 50

\* ((percentile / 100.0) * len as f64) as usize, for a whole percentile in
\* 0..100, on f64: percentile * len \div 100, except where percentile * len / 100
\* is a whole number k and the f64 product rounds to the double below k, which
\* the cast truncates to k - 1.  The product is k plus len times the quotient's
\* error; it rounds below k when that error is negative and larger than half
\* the distance from k to the double below it (2^(j - 52), or 2^(j - 53) for
\* k = 2^j).
PercentileIndex(percentile, len) ==
    LET k == (percentile * len) \div 100
        e == QuotientError(percentile)
    IN  IF (percentile * len) % 100 # 0 \/ k = 0 \/ e >= 0 THEN k
        ELSE LET s == BinadeShift(percentile, 0)
                 j == Log2Floor(k, 0)
                 scaled_error == (0 - e) * len * (IF k = Pow2(j) THEN 4 ELSE 2)
             IN  IF scaled_error > 100 * Pow2(s + j) THEN k - 1 ELSE k

Min2(a, b) == IF a < b THEN a ELSE b

\* the result is a whole number of milliseconds (as_millis() as f64)
percentile_response_time_ms(m, percentile) ==
    IF m.request_metrics = << >>
    THEN 0
    ELSE LET durations == SortedDurations(m.request_metrics)
             index == PercentileIndex(percentile, Len(durations))
             clamped_index == Min2(index, Len(durations) - 1)
         IN  durations[clamped_index + 1]

\* memory_usage_mb and cpu_usage_percent are 0.0 in every result
to_benchmark_result(m, test_name) ==
    [ framework |-> m.framework,
      test_name |-> test_name,
      requests_per_second |-> requests_per_second(m),
      average_response_time_ms |-> average_response_time_ms(m),
      p95_response_time_ms |-> Num(percentile_response_time_ms(m, 95), 1),
      p99_response_time_ms |-> Num(percentile_response_time_ms(m, 99), 1) ]

\* ------------------------------------------------------------- LoadTester
RECURSIVE TotalWeight(_)
TotalWeight(endpoints) ==
    IF endpoints = << >> THEN 0 ELSE Head(endpoints).weight + TotalWeight(Tail(endpoints))

\* the values rng.gen_range(0.0..total_weight) can return; the call panics
\* ("cannot sample empty range") when the range is empty
GenRange(total_weight) == 0..(total_weight - 1)

\* the subtraction loop stopping only at a remainder below 0
RECURSIVE SelectFrom_below_zero(_, _, _)
SelectFrom_below_zero(endpoints, idx, random_value) ==
    IF idx > Len(endpoints) THEN 1
    ELSE IF random_value - endpoints[idx].weight < 0 THEN idx
    ELSE SelectFrom_below_zero(endpoints, idx + 1, random_value - endpoints[idx].weight)

\* the subtraction loop falling back to the position it stopped at
RECURSIVE SelectFrom_fallback_last(_, _, _)
SelectFrom_fallback_last(endpoints, idx, random_value) ==
    IF idx > Len(endpoints) THEN idx - 1
    ELSE IF random_value - endpoints[idx].weight <= 0 THEN idx
    ELSE SelectFrom_fallback_last(endpoints, idx + 1, random_value - endpoints[idx].weight)

\* the subtraction loop from position idx on; position 1 when it falls through
RECURSIVE SelectFrom(_, _, _)
SelectFrom(endpoints, idx, random_value) ==
    IF idx > Len(endpoints) THEN 1
    ELSE IF random_value - endpoints[idx].weight <= 0 THEN idx
    ELSE SelectFrom(endpoints, idx + 1, random_value - endpoints[idx].weight)

\* position (from 1) of the endpoint returned for the draw random_value
select_weighted_endpoint(endpoints, random_value) ==
    SelectFrom(endpoints, 1, random_value)

\* the delay with the multiplication performed before the division
user_start_delay_multiply_first(cfg, user_id) ==
    ((cfg.ramp_up_seconds * MsPerSecond) * user_id) \div cfg.concurrent_users

\* (ramp_up_seconds * 1000 / concurrent_users as u64) * user_id as u64
user_start_delay(cfg, user_id) ==
    ((cfg.ramp_up_seconds * MsPerSecond) \div cfg.concurrent_users) * user_id

benchmark_duration(cfg) == cfg.duration_seconds * MsPerSecond

\* the answers of a client built without .timeout(): a request to a target that
\* is down resolves only when the operating system gives up the connection
Answers_without_timeout(target_up) ==
    [ok : {FALSE}, status : {0}, content_length : {-1}, latency : {RequestTimeoutMs * 4}]

\* what request_builder.send().await resolves to, and after how long:
\* Ok(response) with a status and a content length (-1: none declared), or Err.
\* A target that is down lets every request run into the client timeout.
Answers(target_up) ==
    IF target_up
    THEN [ok : {TRUE}, status : {200}, content_length : {2},
          latency : {FastLatencyMs, SlowLatencyMs}]
         \cup [ok : {TRUE}, status : {500}, content_length : {-1},
               latency : {FastLatencyMs, SlowLatencyMs}]
         \cup [ok : {FALSE}, status : {0}, content_length : {-1},
               latency : {FastLatencyMs, RequestTimeoutMs}]
    ELSE [ok : {FALSE}, status : {0}, content_length : {-1}, latency : {RequestTimeoutMs}]

NoRequest == [path |-> "", request_start |-> 0,
              answer |-> [ok |-> FALSE, status |-> 0, content_length |-> -1, latency |-> 0]]

\* the RequestMetrics pushed by the Ok and Err arms of the match on send()
SampleOf(req, t) ==
    IF req.answer.ok
    THEN [ start_time |-> req.request_start,
           end_time |-> t,
           status_code |-> req.answer.status,
           response_size |-> IF req.answer.content_length < 0 THEN 0 ELSE req.answer.content_length,
           endpoint |-> req.path,
           success |-> is_success(req.answer.status) ]
    ELSE [ start_time |-> req.request_start,
           end_time |-> t,
           status_code |-> 0,
           response_size |-> 0,
           endpoint |-> req.path,
           success |-> FALSE ]

\* samples recorded so far by the tasks of S
RECURSIVE Recorded(_)
Recorded(S) ==
    IF S = {} THEN 0
    ELSE LET i == CHOOSE x \in S : TRUE IN Len(user_metrics[i]) + Recorded(S \ {i})

\* requests sent so far: those whose sample was pushed, those in flight, and
\* those whose task panicked while they were in flight
Dispatched == Recorded(Users) + Cardinality({i \in Users : inflight[i] # NoRequest})

Running(i) == wpc[i] \in {"delay", "inflight", "pause"}
Terminated(i) == wpc[i] \in {"returned", "panicked"}
Sleeping(i) == wpc[i] \in {"delay", "inflight", "pause"}

\* FrameworkComparison::new(), and no report generated yet
FrameworkComparison_new ==
    [ axum_results |-> << >>, loco_results |-> << >>, report |-> [generated |-> FALSE] ]

\* main.rs before any scenario config is built
NoScenarios ==
    [ base_url |-> "", users |-> 0, duration |-> 0, ramp_up |-> 0, built |-> << >> ]

NoSelection == [called |-> FALSE]

\* percentile_response_time_ms has not been called
NoRank == [called |-> FALSE]

\* run_comparison has not been called
NoTool == [pc |-> "idle"]

\* nothing outside run_benchmark has run
AuxIdle ==
    /\ comparison = FrameworkComparison_new
    /\ scenarios = NoScenarios
    /\ selected = NoSelection
    /\ delays = << >>
    /\ ranked = NoRank
    /\ tool = NoTool

Init ==
    /\ AuxIdle
    /\ config \in Configs
    /\ now \in ClockReads(0)
    /\ spawned = 0
    /\ joined = 0
    /\ result = "none"
    /\ metrics = BenchmarkMetrics_new("AXUM", 0, now)
    /\ wpc = [i \in Users |-> "unspawned"]
    /\ wake = [i \in Users |-> 0]
    /\ user_start = [i \in Users |-> 0]
    /\ inflight = [i \in Users |-> NoRequest]
    /\ user_metrics = [i \in Users |-> << >>]

\* one iteration of `for user_id in 0..concurrent_users`: tokio::spawn, tasks.push.
\* The task starts with its ramp-up sleep (none when the delay is 0).
Spawn ==
    /\ result = "none"
    /\ spawned < config.concurrent_users
    /\ wpc' = [wpc EXCEPT ![spawned] = "delay"]
    /\ wake' = [wake EXCEPT ![spawned] = now + user_start_delay(config, spawned)]
    /\ spawned' = spawned + 1
    /\ UNCHANGED <<aux, config, now, joined, result, metrics, user_start, inflight, user_metrics>>

\* the head of a loop `while user_start.elapsed() <= benchmark_duration`
LoopHead_inclusive(i, t0) ==
    IF ~(now - t0 <= benchmark_duration(config))
    THEN /\ wpc' = [wpc EXCEPT ![i] = "returned"]
         /\ UNCHANGED <<wake, inflight>>
    ELSE IF GenRange(TotalWeight(config.endpoints)) = {}
    THEN /\ wpc' = [wpc EXCEPT ![i] = "panicked"]
         /\ UNCHANGED <<wake, inflight>>
    ELSE \E random_value \in GenRange(TotalWeight(config.endpoints)) :
         \E answer \in Answers(Dispatched < MaxAnswered) :
            LET endpoint == config.endpoints[select_weighted_endpoint(config.endpoints, random_value)]
            IN  /\ inflight' = [inflight EXCEPT ![i] =
                       [path |-> endpoint.path, request_start |-> now, answer |-> answer]]
                /\ wake' = [wake EXCEPT ![i] = now + answer.latency]
                /\ wpc' = [wpc EXCEPT ![i] = "inflight"]

\* One pass through the head of the while loop, up to the next await, for a task
\* whose user_start is t0: the duration check fails and the task returns its
\* samples; or select_weighted_endpoint panics on an empty range; or the request
\* for the selected endpoint is built and sent.
LoopHead(i, t0) ==
    IF ~(now - t0 < benchmark_duration(config))
    THEN /\ wpc' = [wpc EXCEPT ![i] = "returned"]
         /\ UNCHANGED <<wake, inflight>>
    ELSE IF GenRange(TotalWeight(config.endpoints)) = {}
    THEN /\ wpc' = [wpc EXCEPT ![i] = "panicked"]
         /\ UNCHANGED <<wake, inflight>>
    ELSE \E random_value \in GenRange(TotalWeight(config.endpoints)) :
         \E answer \in Answers(Dispatched < MaxAnswered) :
            LET endpoint == config.endpoints[select_weighted_endpoint(config.endpoints, random_value)]
            IN  /\ inflight' = [inflight EXCEPT ![i] =
                       [path |-> endpoint.path, request_start |-> now, answer |-> answer]]
                /\ wake' = [wake EXCEPT ![i] = now + answer.latency]
                /\ wpc' = [wpc EXCEPT ![i] = "inflight"]

\* the ramp-up delay is over: user_metrics = Vec::new(), user_start = Instant::now(),
\* then the first pass through the loop head
WorkerStart(i) ==
    /\ wpc[i] = "delay"
    /\ now >= wake[i]
    /\ user_metrics' = [user_metrics EXCEPT ![i] = << >>]
    /\ user_start' = [user_start EXCEPT ![i] = now]
    /\ LoopHead(i, now)
    /\ UNCHANGED <<aux, config, now, spawned, joined, result, metrics>>

\* the request executed with `send().await.unwrap()`: an Err ends the task
Complete_unwrapping(i) ==
    /\ wpc[i] = "inflight"
    /\ now >= wake[i]
    /\ IF inflight[i].answer.ok
       THEN /\ user_metrics' = [user_metrics EXCEPT ![i] = Append(@, SampleOf(inflight[i], now))]
            /\ wake' = [wake EXCEPT ![i] = now + PauseMs]
            /\ wpc' = [wpc EXCEPT ![i] = "pause"]
       ELSE /\ wpc' = [wpc EXCEPT ![i] = "panicked"]
            /\ UNCHANGED <<user_metrics, wake>>
    /\ inflight' = [inflight EXCEPT ![i] = NoRequest]
    /\ UNCHANGED <<aux, config, now, spawned, joined, result, metrics, user_start>>

\* send() resolved: the sample is pushed, then the 10 ms sleep starts
Complete(i) ==
    /\ wpc[i] = "inflight"
    /\ now >= wake[i]
    /\ user_metrics' = [user_metrics EXCEPT ![i] = Append(@, SampleOf(inflight[i], now))]
    /\ inflight' = [inflight EXCEPT ![i] = NoRequest]
    /\ wake' = [wake EXCEPT ![i] = now + PauseMs]
    /\ wpc' = [wpc EXCEPT ![i] = "pause"]
    /\ UNCHANGED <<aux, config, now, spawned, joined, result, metrics, user_start>>

\* the 10 ms sleep is over: the next pass through the loop head
Resume(i) ==
    /\ wpc[i] = "pause"
    /\ now >= wake[i]
    /\ LoopHead(i, user_start[i])
    /\ UNCHANGED <<aux, config, now, spawned, joined, result, metrics, user_start, user_metrics>>

RECURSIVE FoldRequests(_, _)
FoldRequests(m, seq) ==
    IF seq = << >> THEN m ELSE FoldRequests(add_request(m, Head(seq)), Tail(seq))

\* the samples of a task folded last one first
JoinOk_last_first(m, samples) ==
    FoldRequests(m, [j \in 1..Len(samples) |-> samples[Len(samples) + 1 - j]])

\* task.await resolved Ok(user_metrics): every sample is folded into metrics
JoinOk(m, samples) == FoldRequests(m, samples)

\* task.await resolved Err(e): "Task failed" is printed, nothing is folded
JoinErr(m, samples) == m

\* the join loop with `task.await?`: a failed task ends the run with an error
Join_propagating ==
    /\ result = "none"
    /\ spawned = config.concurrent_users
    /\ joined < spawned
    /\ Terminated(joined)
    /\ IF wpc[joined] = "returned"
       THEN /\ metrics' = JoinOk(metrics, user_metrics[joined])
            /\ joined' = joined + 1
            /\ result' = result
       ELSE /\ result' = "ExecutionFailed"
            /\ UNCHANGED <<metrics, joined>>
    /\ UNCHANGED <<aux, config, now, spawned, wpc, wake, user_start, inflight, user_metrics>>

\* one iteration of `for task in tasks`: the await of the next task, in spawn order
Join ==
    /\ result = "none"
    /\ spawned = config.concurrent_users
    /\ joined < spawned
    /\ Terminated(joined)
    /\ metrics' = IF wpc[joined] = "returned"
                  THEN JoinOk(metrics, user_metrics[joined])
                  ELSE JoinErr(metrics, user_metrics[joined])
    /\ joined' = joined + 1
    /\ UNCHANGED <<aux, config, now, spawned, result, wpc, wake, user_start, inflight, user_metrics>>

\* what run_benchmark returns once every task is awaited
Returned == "Ok"

\* run_benchmark returning as soon as one task has been awaited
Finish_after_first_join ==
    /\ result = "none"
    /\ spawned = config.concurrent_users
    /\ (joined >= 1 \/ joined = spawned)
    /\ ClockRead
    /\ metrics' = finalize(metrics, now')
    /\ result' = Returned
    /\ UNCHANGED <<aux, config, spawned, joined, wpc, wake, user_start, inflight, user_metrics>>

\* run_benchmark returning the aggregate without metrics.finalize()
Finish_unfinalized ==
    /\ result = "none"
    /\ spawned = config.concurrent_users
    /\ joined = spawned
    /\ metrics' = metrics
    /\ result' = Returned
    /\ UNCHANGED <<aux, config, now, spawned, joined, wpc, wake, user_start, inflight, user_metrics>>

\* metrics.finalize(), which reads the wall clock again; Ok(metrics)
Finish ==
    /\ result = "none"
    /\ spawned = config.concurrent_users
    /\ joined = spawned
    /\ ClockRead
    /\ metrics' = finalize(metrics, now')
    /\ result' = Returned
    /\ UNCHANGED <<aux, config, spawned, joined, wpc, wake, user_start, inflight, user_metrics>>

\* a step that takes no time is possible
Busy ==
    \/ (result = "none" /\ spawned < config.concurrent_users)
    \/ (result = "none" /\ spawned = config.concurrent_users /\ joined = spawned)
    \/ (result = "none" /\ spawned = config.concurrent_users /\ joined < spawned
            /\ Terminated(joined))
    \/ \E i \in Users : Sleeping(i) /\ now >= wake[i]

Min(S) == CHOOSE x \in S : \A y \in S : x <= y

\* the clock moves to the next instant at which a sleep or a request ends
Tick ==
    /\ ~Busy
    /\ \E i \in Users : Sleeping(i)
    /\ now' = Min({wake[i] : i \in {j \in Users : Sleeping(j)}})
    /\ UNCHANGED <<aux, config, spawned, joined, result, metrics, wpc, wake, user_start,
                   inflight, user_metrics>>

Next ==
    \/ Spawn
    \/ \E i \in Users : WorkerStart(i)
    \/ \E i \in Users : Complete(i)
    \/ \E i \in Users : Resume(i)
    \/ Join
    \/ Finish
    \/ Tick

Spec == Init /\ [][Next]_vars

\* The tokio runtime polls every task that can run, its timers fire and the
\* clock advances: a step that is possible is eventually taken.
LiveSpec == Init /\ [][Next]_vars /\ WF_vars(Next)

\* ------------------------------------------------------------- task failure
\* A task may also end in a panic that is not the selector's (an internal error
\* of a library it calls): tokio catches it at the poll in which it happens, the
\* task's user_metrics is dropped with the task, and task.await resolves to
\* Err(JoinError).  user_metrics[i] keeps what the task had pushed until then,
\* inflight[i] the request it had sent when it panicked inside send().
WorkerFault(i) ==
    /\ Sleeping(i)
    /\ now >= wake[i]
    /\ wpc' = [wpc EXCEPT ![i] = "panicked"]
    /\ UNCHANGED <<aux, config, now, spawned, joined, result, metrics, wake, user_start,
                   inflight, user_metrics>>

FaultNext ==
    \/ Next
    \/ \E i \in Users : WorkerFault(i)

FaultSpec == Init /\ [][FaultNext]_vars

\* ------------------------------------------------------------- the aggregate alone
\* BenchmarkMetrics as a value of its own: a fresh aggregate, and add_request
\* called with any sample
SampleKinds ==
    { [status_code |-> 200, response_size |-> 2, success |-> TRUE],
      [status_code |-> 500, response_size |-> 0, success |-> FALSE],
      [status_code |-> 0, response_size |-> 0, success |-> FALSE] }

SampleDurations == {1, 2, 3}

Samples ==
    { [ start_time |-> 0, end_time |-> d, status_code |-> k.status_code,
        response_size |-> k.response_size, endpoint |-> "/health", success |-> k.success ] :
      d \in SampleDurations, k \in SampleKinds }

IdleConfig ==
    [ concurrent_users |-> 0, duration_seconds |-> 0, ramp_up_seconds |-> 0,
      endpoints |-> << [path |-> "/health", weight |-> 2] >> ]

MetricsInit ==
    /\ AuxIdle
    /\ config = IdleConfig
    /\ now \in ClockReads(0)
    /\ spawned = 0
    /\ joined = 0
    /\ result = "none"
    /\ metrics = BenchmarkMetrics_new("AXUM", 0, now)
    /\ wpc = [i \in Users |-> "unspawned"]
    /\ wake = [i \in Users |-> 0]
    /\ user_start = [i \in Users |-> 0]
    /\ inflight = [i \in Users |-> NoRequest]
    /\ user_metrics = [i \in Users |-> << >>]

AddRequest ==
    /\ Len(metrics.request_metrics) < MaxFold
    /\ \E s \in Samples : metrics' = add_request(metrics, s)
    /\ UNCHANGED <<aux, config, now, spawned, joined, result, wpc, wake, user_start,
                   inflight, user_metrics>>

MetricsNext == AddRequest

MetricsSpec == MetricsInit /\ [][MetricsNext]_vars

\* ------------------------------------------------------------- idle run
\* the variables of run_benchmark
run == <<config, now, spawned, joined, result, metrics, wpc, wake,
         user_start, inflight, user_metrics>>

\* no run_benchmark in progress
RunIdle ==
    /\ config = IdleConfig
    /\ now = 0
    /\ spawned = 0
    /\ joined = 0
    /\ result = "none"
    /\ metrics = BenchmarkMetrics_new("AXUM", 0, 0)
    /\ wpc = [i \in Users |-> "unspawned"]
    /\ wake = [i \in Users |-> 0]
    /\ user_start = [i \in Users |-> 0]
    /\ inflight = [i \in Users |-> NoRequest]
    /\ user_metrics = [i \in Users |-> << >>]

\* ------------------------------------------------------------- percentiles
\* percentile_response_time_ms called on an aggregate of up to MaxRank samples,
\* with any whole percentile from 0 to 100.  The samples were added longest
\* first; with spread 1 their durations are count, count - 1, ..., 1 ms, with
\* spread 2 every duration occurs twice.
Spreads == {1, 2}

RankedSamples(count, spread) ==
    [ j \in 1..count |->
        [ start_time |-> 0, end_time |-> ((count - j) \div spread) + 1, status_code |-> 200,
          response_size |-> 2, endpoint |-> "/health", success |-> TRUE ] ]

PercentileInit ==
    /\ AuxIdle
    /\ config = IdleConfig
    /\ now = 0
    /\ spawned = 0
    /\ joined = 0
    /\ result = "none"
    /\ \E count \in 1..MaxRank, spread \in Spreads :
          metrics = FoldRequests(BenchmarkMetrics_new("AXUM", 0, 0), RankedSamples(count, spread))
    /\ wpc = [i \in Users |-> "unspawned"]
    /\ wake = [i \in Users |-> 0]
    /\ user_start = [i \in Users |-> 0]
    /\ inflight = [i \in Users |-> NoRequest]
    /\ user_metrics = [i \in Users |-> << >>]

\* one call of metrics.percentile_response_time_ms(percentile)
Percentile ==
    /\ \E percentile \in 0..100 :
          ranked' = [ called |-> TRUE, percentile |-> percentile,
                      value |-> percentile_response_time_ms(metrics, percentile) ]
    /\ UNCHANGED <<run, tool, comparison, scenarios, selected, delays>>

PercentileNext == Percentile

PercentileSpec == PercentileInit /\ [][PercentileNext]_vars

\* ------------------------------------------------------------- FrameworkComparison
\* f64 arithmetic on exact fractions, for operands that are NaN, +inf or a
\* finite value >= 0
QAdd(a, b) ==
    IF a.k = "nan" \/ b.k = "nan" THEN NaN
    ELSE IF a.k = "inf" \/ b.k = "inf" THEN Inf
    ELSE LET g == Gcd(a.d, b.d)
         IN  Num(a.n * (b.d \div g) + b.n * (a.d \div g), (a.d \div g) * b.d)

\* a - b is only taken with a >= b or with a NaN among the two
QSub(a, b) ==
    IF a.k = "nan" \/ b.k = "nan" THEN NaN
    ELSE IF a.k = "inf" THEN (IF b.k = "inf" THEN NaN ELSE Inf)
    ELSE LET g == Gcd(a.d, b.d)
         IN  Num(a.n * (b.d \div g) - b.n * (a.d \div g), (a.d \div g) * b.d)

QDiv(a, b) ==
    IF a.k = "nan" \/ b.k = "nan" THEN NaN
    ELSE IF a.k = "inf" THEN (IF b.k = "inf" THEN NaN ELSE Inf)
    ELSE IF b.k = "inf" THEN Zero
    ELSE IF b.n = 0 THEN (IF a.n = 0 THEN NaN ELSE Inf)
    ELSE LET gn == Gcd(a.n, b.n)
             gd == Gcd(a.d, b.d)
         IN  Num((a.n \div gn) * (b.d \div gd), (a.d \div gd) * (b.n \div gn))

QTimes(a, c) == IF a.k = "num" THEN Num(a.n * c, a.d) ELSE a

\* a < b; a comparison with NaN is false
QLess(a, b) ==
    IF a.k = "nan" \/ b.k = "nan" THEN FALSE
    ELSE IF a.k = "inf" THEN FALSE
    ELSE IF b.k = "inf" THEN TRUE
    ELSE LET g == Gcd(a.d, b.d)
         IN  a.n * (b.d \div g) < b.n * (a.d \div g)

\* format!("{:.1}", x) in tenths ("nan", "inf" for NaN and inf): the tenths
\* nearest to the f64.  The f64 is x but for the rounding errors of the
\* operations that produced it, which are too small to move it nearer to
\* another tenth unless x lies exactly between two tenths; there they decide
\* which of the two is printed (0.05 computed as 5.0 / 10000.0 * 100.0 prints
\* 0.1, 0.15 computed as 15.0 / 10000.0 * 100.0 prints 0.1).
FormatTenths(x) ==
    IF x.k # "num" THEN {x.k}
    ELSE LET whole == x.n \div x.d
             q == whole * 10 + ((x.n % x.d) * 10) \div x.d
             r == ((x.n % x.d) * 10) % x.d
         IN  IF 2 * r > x.d THEN {q + 1}
             ELSE IF 2 * r = x.d THEN {q, q + 1}
             ELSE {q}

\* a BenchmarkResult with the statistics that enter the winner analysis
Result(rps, average) ==
    [ requests_per_second |-> rps,
      average_response_time_ms |-> average,
      p95_response_time_ms |-> Num(12, 1),
      p99_response_time_ms |-> Num(18, 1) ]

\* the BenchmarkResults the comparison is fed with: 15420.5 req/s at 6.5 ms and
\* at 200.0 ms, 14850.2 req/s at 6.5 ms and at 0.0 ms, and the result of a run
\* without requests
BenchmarkResults ==
    { Result(Num(154205, 10), Num(65, 10)),
      Result(Num(154205, 10), Num(200, 1)),
      Result(Num(148502, 10), Num(65, 10)),
      Result(Num(148502, 10), Zero),
      Result(Zero, Zero) }

\* results.iter().map(|r| r.f).sum::<f64>()
RECURSIVE SumField(_, _)
SumField(results, f) ==
    IF results = << >> THEN Zero
    ELSE QAdd(SumField(SubSeq(results, 1, Len(results) - 1), f), results[Len(results)][f])

NoAverage == [some |-> FALSE]

\* None for no results, else the arithmetic mean of each field
calculate_average_metrics(results) ==
    IF results = << >>
    THEN NoAverage
    ELSE LET count == Num(Len(results), 1)
         IN  [ some |-> TRUE,
               requests_per_second |-> QDiv(SumField(results, "requests_per_second"), count),
               average_response_time_ms |->
                   QDiv(SumField(results, "average_response_time_ms"), count),
               p95_response_time_ms |-> QDiv(SumField(results, "p95_response_time_ms"), count),
               p99_response_time_ms |-> QDiv(SumField(results, "p99_response_time_ms"), count) ]

\* the difference taken relative to the larger of the two means
PercentDifference_of_larger(larger, smaller, base) ==
    QTimes(QDiv(QSub(larger, smaller), larger), 100)

\* ((larger - smaller) / base) * 100.0
PercentDifference(larger, smaller, base) ==
    QTimes(QDiv(QSub(larger, smaller), base), 100)

\* the "## Analysis" section: written only when both averages exist.  The
\* sections that can be written: one, or one per tenth that can be printed.
WinnerAnalysis(axum_avg, loco_avg) ==
    IF ~(axum_avg.some /\ loco_avg.some)
    THEN {[present |-> FALSE]}
    ELSE LET a_rps == axum_avg.requests_per_second
             l_rps == loco_avg.requests_per_second
             a_rt == axum_avg.average_response_time_ms
             l_rt == loco_avg.average_response_time_ms
             axum_throughput == QLess(l_rps, a_rps)
             axum_response == QLess(a_rt, l_rt)
             throughput_diff == IF axum_throughput
                                THEN PercentDifference(a_rps, l_rps, l_rps)
                                ELSE PercentDifference(l_rps, a_rps, a_rps)
             response_diff == IF axum_response
                              THEN PercentDifference(l_rt, a_rt, l_rt)
                              ELSE PercentDifference(a_rt, l_rt, a_rt)
         IN  { [ present |-> TRUE,
                 throughput_winner |-> IF axum_throughput THEN "AXUM" ELSE "LOCO",
                 throughput_diff |-> throughput_diff,
                 throughput_text |-> throughput_text,
                 response_winner |-> IF axum_response THEN "AXUM" ELSE "LOCO",
                 response_diff |-> response_diff,
                 response_text |-> response_text ] :
               throughput_text \in FormatTenths(throughput_diff),
               response_text \in FormatTenths(response_diff) }

\* a "### ... Framework Results" section written for an empty list as well
DetailSection_always(results) == [present |-> TRUE, entries |-> results]

\* a "### ... Framework Results" section: written only for a non-empty list
DetailSection(results) ==
    IF results = << >>
    THEN [present |-> FALSE]
    ELSE [present |-> TRUE, entries |-> results]

\* what the report holds: the summary rows, the detail sections, the analysis.
\* The reports that can be returned for c: one for each analysis section.
generate_comparison_report(c) ==
    LET axum_avg == calculate_average_metrics(c.axum_results)
        loco_avg == calculate_average_metrics(c.loco_results)
    IN  { [ generated |-> TRUE,
            axum_row |-> axum_avg,
            loco_row |-> loco_avg,
            axum_details |-> DetailSection(c.axum_results),
            loco_details |-> DetailSection(c.loco_results),
            analysis |-> analysis ] :
          analysis \in WinnerAnalysis(axum_avg, loco_avg) }

ComparisonInit ==
    /\ RunIdle
    /\ AuxIdle

\* self.axum_results.push(result); a report returned earlier stays as it is
add_axum_result ==
    /\ Len(comparison.axum_results) < MaxResults
    /\ \E r \in BenchmarkResults :
          comparison' = [comparison EXCEPT !.axum_results = Append(@, r)]
    /\ UNCHANGED <<run, tool, scenarios, selected, delays, ranked>>

\* self.loco_results.push(result)
add_loco_result ==
    /\ Len(comparison.loco_results) < MaxResults
    /\ \E r \in BenchmarkResults :
          comparison' = [comparison EXCEPT !.loco_results = Append(@, r)]
    /\ UNCHANGED <<run, tool, scenarios, selected, delays, ranked>>

\* a call of generate_comparison_report(&self); comparison.report is what the
\* last call returned
GenerateReport ==
    /\ \E report \in generate_comparison_report(comparison) :
          comparison' = [comparison EXCEPT !.report = report]
    /\ UNCHANGED <<run, tool, scenarios, selected, delays, ranked>>

ComparisonNext ==
    \/ add_axum_result
    \/ add_loco_result
    \/ GenerateReport

ComparisonSpec == ComparisonInit /\ [][ComparisonNext]_vars

\* ------------------------------------------------------------- scenario configs
\* an EndpointConfig of main.rs; the weight in units of 0.05 (1.0 is 20)
Endpoint(path, method, has_body, weight) ==
    [path |-> path, method |-> method, has_body |-> has_body, weight |-> weight]

\* create_health_config with duration and ramp_up taking each other's place
create_health_config_swapped(base_url, users, duration, ramp_up) ==
    [ target_url |-> base_url,
      concurrent_users |-> users,
      duration_seconds |-> ramp_up,
      ramp_up_seconds |-> duration,
      endpoints |-> << Endpoint("/health", "GET", FALSE, 20) >> ]

create_health_config(base_url, users, duration, ramp_up) ==
    [ target_url |-> base_url,
      concurrent_users |-> users,
      duration_seconds |-> duration,
      ramp_up_seconds |-> ramp_up,
      endpoints |-> << Endpoint("/health", "GET", FALSE, 20) >> ]

create_rest_config(base_url, users, duration, ramp_up) ==
    [ target_url |-> base_url,
      concurrent_users |-> users,
      duration_seconds |-> duration,
      ramp_up_seconds |-> ramp_up,
      endpoints |-> << Endpoint("/api/products", "GET", FALSE, 12),
                       Endpoint("/api/products", "POST", TRUE, 4),
                       Endpoint("/api/auth/login", "POST", TRUE, 4) >> ]

create_graphql_config(base_url, users, duration, ramp_up) ==
    [ target_url |-> base_url,
      concurrent_users |-> users,
      duration_seconds |-> duration,
      ramp_up_seconds |-> ramp_up,
      endpoints |-> << Endpoint("/graphql", "POST", TRUE, 6),
                       Endpoint("/graphql", "POST", TRUE, 8),
                       Endpoint("/graphql", "POST", TRUE, 6) >> ]

create_mixed_config(base_url, users, duration, ramp_up) ==
    [ target_url |-> base_url,
      concurrent_users |-> users,
      duration_seconds |-> duration,
      ramp_up_seconds |-> ramp_up,
      endpoints |-> << Endpoint("/health", "GET", FALSE, 4),
                       Endpoint("/api/products", "GET", FALSE, 6),
                       Endpoint("/graphql", "POST", TRUE, 6),
                       Endpoint("/metrics", "GET", FALSE, 4) >> ]

\* the k-th element of the scenarios vector of run_framework_benchmark
Scenario(k, base_url, users, duration, ramp_up) ==
    IF k = 1 THEN [ test_name |-> "Health Check",
                    config |-> create_health_config(base_url, users, duration, ramp_up) ]
    ELSE IF k = 2 THEN [ test_name |-> "REST API",
                         config |-> create_rest_config(base_url, users, duration, ramp_up) ]
    ELSE IF k = 3 THEN [ test_name |-> "GraphQL",
                         config |-> create_graphql_config(base_url, users, duration, ramp_up) ]
    ELSE [ test_name |-> "Mixed Load",
           config |-> create_mixed_config(base_url, users, duration, ramp_up) ]

ScenarioCount == 4

\* the command line: the default URLs of the two frameworks, small values and
\* the defaults (100 users, 60 s, 10 s ramp-up)
BaseUrls == {"http://localhost:3000", "http://localhost:5150"}
UserArgs == (0..MaxUsers) \cup {100}
DurationArgs == (0..MaxDuration) \cup {60}
RampUpArgs == (0..MaxRampUp) \cup {10}

ScenarioInit ==
    /\ RunIdle
    /\ comparison = FrameworkComparison_new
    /\ selected = NoSelection
    /\ delays = << >>
    /\ ranked = NoRank
    /\ tool = NoTool
    /\ scenarios \in [ base_url : BaseUrls, users : UserArgs, duration : DurationArgs,
                       ramp_up : RampUpArgs, built : {<< >>} ]

\* the next element of `let scenarios = vec![...]` is evaluated
BuildScenario ==
    /\ Len(scenarios.built) < ScenarioCount
    /\ scenarios' = [scenarios EXCEPT !.built =
           Append(@, Scenario(Len(@) + 1, scenarios.base_url, scenarios.users,
                              scenarios.duration, scenarios.ramp_up))]
    /\ UNCHANGED <<run, tool, comparison, selected, delays, ranked>>

ScenarioNext == BuildScenario

ScenarioSpec == ScenarioInit /\ [][ScenarioNext]_vars

\* ------------------------------------------------------------- selector alone
EndpointPaths == << "/health", "/api/products", "/graphql", "/metrics", "/api/auth/login" >>

EndpointWeights == {0, 2, 4}

\* every list of up to MaxEndpoints endpoints with these weights, the empty one too
SelectLists ==
    UNION { { [k \in 1..n |-> [path |-> EndpointPaths[k], weight |-> w[k]]] :
              w \in [1..n -> EndpointWeights] } : n \in 0..MaxEndpoints }

\* The values the draw can take. total_weight is the f32 sum of the weights and
\* the loop subtracts them one by one, each step rounded: for two or more
\* endpoints the rounded total can exceed what the subtractions take off, so a
\* draw below it can be left positive by all of them. The excess is one unit of
\* the grid here (a draw of total is taken to 0 by the last endpoint, a draw of
\* total + 1 by none).
RoundedDraws(endpoints) ==
    IF Len(endpoints) >= 2 /\ TotalWeight(endpoints) > 0
    THEN GenRange(TotalWeight(endpoints) + 2)
    ELSE GenRange(TotalWeight(endpoints))

SelectInit ==
    /\ AuxIdle
    /\ \E endpoints \in SelectLists : config = [IdleConfig EXCEPT !.endpoints = endpoints]
    /\ now = 0
    /\ spawned = 0
    /\ joined = 0
    /\ result = "none"
    /\ metrics = BenchmarkMetrics_new("AXUM", 0, 0)
    /\ wpc = [i \in Users |-> "unspawned"]
    /\ wake = [i \in Users |-> 0]
    /\ user_start = [i \in Users |-> 0]
    /\ inflight = [i \in Users |-> NoRequest]
    /\ user_metrics = [i \in Users |-> << >>]

\* one call of select_weighted_endpoint(&config.endpoints): it panics on an
\* empty range, else it returns the endpoint at position idx
Select ==
    /\ IF RoundedDraws(config.endpoints) = {}
       THEN selected' = [called |-> TRUE, panicked |-> TRUE]
       ELSE \E random_value \in RoundedDraws(config.endpoints) :
               selected' = [ called |-> TRUE, panicked |-> FALSE,
                             random_value |-> random_value,
                             idx |-> select_weighted_endpoint(config.endpoints, random_value) ]
    /\ UNCHANGED <<run, tool, comparison, scenarios, delays, ranked>>

SelectNext == Select

SelectSpec == SelectInit /\ [][SelectNext]_vars

\* ------------------------------------------------------------- start delays alone
\* the spawn loop followed for its user_start_delay only, which allows more users:
\* every small number of them, and more of them than a ramp-up of one second
\* has milliseconds
DelayUsers == (0..MaxDelayUsers) \cup {MsPerSecond + 1}

DelayInit ==
    /\ AuxIdle
    /\ \E users \in DelayUsers, ramp_up \in 0..MaxDelayRampUp :
          config = [IdleConfig EXCEPT !.concurrent_users = users, !.ramp_up_seconds = ramp_up]
    /\ now = 0
    /\ spawned = 0
    /\ joined = 0
    /\ result = "none"
    /\ metrics = BenchmarkMetrics_new("AXUM", 0, 0)
    /\ wpc = [i \in Users |-> "unspawned"]
    /\ wake = [i \in Users |-> 0]
    /\ user_start = [i \in Users |-> 0]
    /\ inflight = [i \in Users |-> NoRequest]
    /\ user_metrics = [i \in Users |-> << >>]

\* one iteration of `for user_id in 0..concurrent_users`, user_id = Len(delays);
\* the loop is followed for its first MaxDelayUsers iterations
ComputeDelay ==
    /\ Len(delays) < config.concurrent_users
    /\ Len(delays) < MaxDelayUsers
    /\ delays' = Append(delays, user_start_delay(config, Len(delays)))
    /\ UNCHANGED <<run, tool, comparison, scenarios, selected, ranked>>

DelayNext == ComputeDelay

DelaySpec == DelayInit /\ [][DelayNext]_vars

\* ------------------------------------------------------------- merge in any order
\* The join loop awaits the tasks in spawn order. Here the tasks have all
\* returned and their sample sequences are folded by the same code in any
\* order of the tasks.
MergeSamples ==
    { [ start_time |-> 0, end_time |-> 1, status_code |-> 200,
        response_size |-> 2, endpoint |-> "/health", success |-> TRUE ],
      [ start_time |-> 0, end_time |-> 3, status_code |-> 500,
        response_size |-> 0, endpoint |-> "/health", success |-> FALSE ],
      [ start_time |-> 0, end_time |-> 2, status_code |-> 0,
        response_size |-> 0, endpoint |-> "/health", success |-> FALSE ],
      [ start_time |-> 0, end_time |-> 4, status_code |-> 200,
        response_size |-> 2, endpoint |-> "/graphql", success |-> TRUE ] }

MergeSequences == UNION { [1..n -> MergeSamples] : n \in 0..MaxMergeLen }

MergeInit ==
    /\ AuxIdle
    /\ config = [IdleConfig EXCEPT !.concurrent_users = MaxUsers]
    /\ now = 0
    /\ spawned = MaxUsers
    /\ joined = 0
    /\ result = "none"
    /\ metrics = BenchmarkMetrics_new("AXUM", 0, 0)
    /\ wpc = [i \in Users |-> "returned"]
    /\ wake = [i \in Users |-> 0]
    /\ user_start = [i \in Users |-> 0]
    /\ inflight = [i \in Users |-> NoRequest]
    /\ user_metrics \in [Users -> MergeSequences]

\* task i is awaited, whichever tasks were awaited before: Ok(user_metrics)
MergeAny(i) ==
    /\ wpc[i] = "returned"
    /\ metrics' = JoinOk(metrics, user_metrics[i])
    /\ joined' = joined + 1
    /\ wpc' = [wpc EXCEPT ![i] = "joined"]
    /\ UNCHANGED <<aux, config, now, spawned, result, wake, user_start, inflight, user_metrics>>

MergeNext == \E i \in Users : MergeAny(i)

MergeSpec == MergeInit /\ [][MergeNext]_vars

\* ------------------------------------------------------------- run_comparison
\* run_comparison of main.rs, from await to await.  While a scenario is
\* running the steps are those of run_benchmark (Next).  tool.log lists the
\* runs started and how each ended.
AppendAll(seq, more) == seq \o more

\* --users, --duration and --ramp-up a comparison is run with: any number of
\* workers and any ramp-up, for a duration of 0 seconds.  Every worker is
\* spawned, waits for its start delay, finds the duration elapsed at its first
\* look and returns no sample.
ToolUsers == 0..MaxUsers
ToolDurations == {0}
ToolRampUps == {MaxRampUp}

\* the URL the current framework is benchmarked at
ToolUrl == IF tool.framework = "AXUM" THEN tool.axum_url ELSE tool.loco_url

ToolInit ==
    /\ RunIdle
    /\ comparison = FrameworkComparison_new
    /\ scenarios = NoScenarios
    /\ selected = NoSelection
    /\ delays = << >>
    /\ ranked = NoRank
    /\ \E users \in ToolUsers, duration \in ToolDurations, ramp_up \in ToolRampUps :
          tool = [ pc |-> "call", framework |-> "AXUM",
                   axum_url |-> "http://localhost:3000", loco_url |-> "http://localhost:5150",
                   users |-> users, duration |-> duration, ramp_up |-> ramp_up,
                   k |-> 1, results |-> << >>, log |-> << >>, returned |-> "none" ]

\* run_framework_benchmark is entered: results = Vec::new(), the scenarios
\* vector is built, the loop is at its first element
CallFramework ==
    /\ tool.pc = "call"
    /\ tool' = [tool EXCEPT !.pc = "scenario", !.k = 1, !.results = << >>]
    /\ UNCHANGED <<run, comparison, scenarios, selected, delays, ranked>>

\* LoadTester::new(cfg).run_benchmark(framework) up to its spawn loop
EnterRun(cfg, framework) ==
    /\ config' = cfg
    /\ \E end_time \in ClockReads(now) :
          /\ metrics' = BenchmarkMetrics_new(framework, now, end_time)
          /\ now' = end_time
    /\ spawned' = 0
    /\ joined' = 0
    /\ result' = "none"
    /\ wpc' = [i \in Users |-> "unspawned"]
    /\ wake' = [i \in Users |-> 0]
    /\ user_start' = [i \in Users |-> 0]
    /\ inflight' = [i \in Users |-> NoRequest]
    /\ user_metrics' = [i \in Users |-> << >>]

\* the next scenario being started while the run of the current one is in progress
StartScenario_concurrent ==
    /\ \/ tool.pc = "scenario"
       \/ (tool.pc = "running" /\ tool.k < ScenarioCount)
    /\ LET k == IF tool.pc = "scenario" THEN tool.k ELSE tool.k + 1
           scenario == Scenario(k, ToolUrl, tool.users, tool.duration, tool.ramp_up)
       IN  /\ EnterRun(scenario.config, tool.framework)
           /\ tool' = [tool EXCEPT !.pc = "running", !.k = k,
                          !.log = Append(@, [framework |-> tool.framework,
                                             test_name |-> scenario.test_name,
                                             event |-> "start"])]
    /\ UNCHANGED <<comparison, scenarios, selected, delays, ranked>>

\* one iteration of `for (test_name, config) in scenarios` up to the await:
\* LoadTester::new(config), run_benchmark(framework) is called
StartScenario ==
    /\ tool.pc = "scenario"
    /\ LET scenario == Scenario(tool.k, ToolUrl, tool.users, tool.duration, tool.ramp_up)
       IN  /\ EnterRun(scenario.config, tool.framework)
           /\ tool' = [tool EXCEPT !.pc = "running",
                          !.log = Append(@, [framework |-> tool.framework,
                                             test_name |-> scenario.test_name,
                                             event |-> "start"])]
    /\ UNCHANGED <<comparison, scenarios, selected, delays, ranked>>

\* the call has returned and its match arm is over: the tasks are gone, the
\* aggregate that was returned is dropped; load_tester lives on to the end of
\* the iteration and the clock is where it was
RunOver ==
    /\ spawned' = 0
    /\ joined' = 0
    /\ result' = "none"
    /\ metrics' = BenchmarkMetrics_new("AXUM", 0, 0)
    /\ wpc' = [i \in Users |-> "unspawned"]
    /\ wake' = [i \in Users |-> 0]
    /\ user_start' = [i \in Users |-> 0]
    /\ inflight' = [i \in Users |-> NoRequest]
    /\ user_metrics' = [i \in Users |-> << >>]
    /\ UNCHANGED <<config, now>>

\* the steps of the run_benchmark call that is awaited
ToolRun ==
    /\ tool.pc = "running"
    /\ Next

\* the scenario that is running, as logged at its start
Current == tool.log[Len(tool.log)]

\* run_benchmark returned Ok(metrics), the match arm Ok(metrics): the result
\* is pushed; then the 5 s sleep starts
ScenarioOk ==
    /\ tool.pc = "running"
    /\ result = "Ok"
    /\ tool' = [tool EXCEPT !.pc = "pause",
                   !.results = Append(@, to_benchmark_result(metrics, Current.test_name)),
                   !.log = Append(@, [Current EXCEPT !.event = "ok"])]
    /\ RunOver
    /\ UNCHANGED <<comparison, scenarios, selected, delays, ranked>>

\* The call returned Err(e).  No path of run_benchmark returns one; its
\* signature, Result<BenchmarkMetrics, BenchmarkError>, admits it, and the
\* match has an arm for it.  The Err is returned before a task is spawned.
ReturnedErr ==
    /\ tool.pc = "running"
    /\ result = "none"
    /\ spawned = 0

\* run_benchmark(..).await? in place of the match: an Err leaves
\* run_framework_benchmark at once, and its caller goes on with its Err arm
ScenarioErr_propagating ==
    /\ ReturnedErr
    /\ tool' = [tool EXCEPT !.pc = IF tool.framework = "AXUM" THEN "between" ELSE "report",
                   !.results = << >>,
                   !.log = Append(@, [Current EXCEPT !.event = "err"])]
    /\ RunOver
    /\ UNCHANGED <<comparison, scenarios, selected, delays, ranked>>

\* the match arm Err(e): a warning, nothing is pushed; then the 5 s sleep starts
ScenarioErr ==
    /\ ReturnedErr
    /\ tool' = [tool EXCEPT !.pc = "pause",
                   !.log = Append(@, [Current EXCEPT !.event = "err"])]
    /\ RunOver
    /\ UNCHANGED <<comparison, scenarios, selected, delays, ranked>>

\* the 5 s sleep is over.  With scenarios left the loop goes on; after the last
\* one run_framework_benchmark returns Ok(results) and run_comparison adds
\* every result to the list of the framework, then starts its 30 s sleep
\* (after AXUM) or goes on to the report (after LOCO)
PauseOver ==
    /\ tool.pc = "pause"
    /\ now' = now + ScenarioPauseMs
    /\ IF tool.k < ScenarioCount
       THEN /\ tool' = [tool EXCEPT !.pc = "scenario", !.k = @ + 1]
            /\ comparison' = comparison
       ELSE IF tool.framework = "AXUM"
       THEN /\ tool' = [tool EXCEPT !.pc = "between"]
            /\ comparison' = [comparison EXCEPT !.axum_results = AppendAll(@, tool.results)]
       ELSE /\ tool' = [tool EXCEPT !.pc = "report"]
            /\ comparison' = [comparison EXCEPT !.loco_results = AppendAll(@, tool.results)]
    /\ UNCHANGED <<config, spawned, joined, result, metrics, wpc, wake, user_start, inflight,
                   user_metrics, scenarios, selected, delays, ranked>>

\* the 30 s sleep between the frameworks is over: LOCO is next
BetweenOver ==
    /\ tool.pc = "between"
    /\ now' = now + FrameworkPauseMs
    /\ tool' = [tool EXCEPT !.pc = "call", !.framework = "LOCO"]
    /\ UNCHANGED <<config, spawned, joined, result, metrics, wpc, wake, user_start, inflight,
                   user_metrics, comparison, scenarios, selected, delays, ranked>>

\* comparison.generate_comparison_report(), println!, then the write is awaited
ReportAndPrint ==
    /\ tool.pc = "report"
    /\ \E report \in generate_comparison_report(comparison) :
          comparison' = [comparison EXCEPT !.report = report]
    /\ tool' = [tool EXCEPT !.pc = "save"]
    /\ UNCHANGED <<run, scenarios, selected, delays, ranked>>

\* tokio::fs::write(..).await?: run_comparison returns Ok(()) or the I/O error
SaveReport ==
    /\ tool.pc = "save"
    /\ \E written \in BOOLEAN :
          tool' = [tool EXCEPT !.pc = "done", !.returned = IF written THEN "Ok" ELSE "Err"]
    /\ UNCHANGED <<run, comparison, scenarios, selected, delays, ranked>>

ToolNext ==
    \/ CallFramework
    \/ StartScenario
    \/ ToolRun
    \/ ScenarioOk
    \/ ScenarioErr
    \/ PauseOver
    \/ BetweenOver
    \/ ReportAndPrint
    \/ SaveReport

ToolSpec == ToolInit /\ [][ToolNext]_vars

\* the steps of run_comparison that end an await: a call that returns, a sleep
\* that is over, a write that completes
ToolResumes ==
    \/ CallFramework
    \/ StartScenario
    \/ ScenarioOk
    \/ ScenarioErr
    \/ PauseOver
    \/ BetweenOver
    \/ SaveReport

\* The tokio runtime runs run_comparison and the tasks of a run whenever they
\* can go on, every sleep ends and every call returns: weak fairness of every
\* step.  For ReportAndPrint, which is enabled exactly when tool.pc = "report",
\* WF_vars(ReportAndPrint) is written out as <>[]enabled => []<>taken.
ToolLiveSpec ==
    /\ ToolInit
    /\ [][ToolNext]_vars
    /\ WF_vars(ToolRun)
    /\ WF_vars(ToolResumes)
    /\ (<>[](tool.pc = "report") => []<><<ReportAndPrint>>_vars)

\* ============================================================= claims

\* the samples of the tasks 0 .. k-1 that returned normally, in task order
RECURSIVE ReturnedSamples(_)
ReturnedSamples(k) ==
    IF k = 0 THEN << >>
    ELSE ReturnedSamples(k - 1)
         \o (IF wpc[k - 1] = "returned" THEN user_metrics[k - 1] ELSE << >>)

\* the samples of the tasks 0 .. k-1, whether they returned or panicked
RECURSIVE ProducedSamples(_)
ProducedSamples(k) ==
    IF k = 0 THEN << >> ELSE ProducedSamples(k - 1) \o user_metrics[k - 1]

CountWhere(seq, P(_)) == Cardinality({j \in 1..Len(seq) : P(seq[j])})

IsSuccessSample(s) == s.success
IsTransportFailure(s) == s.status_code = 0 /\ s.response_size = 0 /\ ~s.success

\* C1 as stated: whenever a sample is in the aggregate, every one of the
\* concurrent_users tasks has terminated.
C1_FoldOnlyAfterAllTerminated ==
    metrics.total_requests > 0 =>
        \A i \in Users : i < config.concurrent_users => Terminated(i)

\* C2: the counts of the aggregate add up at every moment, and once
\* run_benchmark has returned, total_requests is the sum of the lengths of the
\* sample sequences of the tasks that returned normally, with as many
\* successes as these sequences hold.
C2_MergedCountsAddUp ==
    /\ metrics.successful_requests + metrics.failed_requests = metrics.total_requests
    /\ result = "Ok" =>
         /\ metrics.total_requests = Len(ReturnedSamples(config.concurrent_users))
         /\ metrics.successful_requests =
                CountWhere(ReturnedSamples(config.concurrent_users), IsSuccessSample)
         /\ Len(metrics.request_metrics) = metrics.total_requests

\* a returned run of two or more tasks, each with samples, with successes and failures
C2_Witness ==
    /\ result = "Ok"
    /\ config.concurrent_users >= 2
    /\ \A i \in Users : i < config.concurrent_users =>
            wpc[i] = "returned" /\ Len(user_metrics[i]) > 0
    /\ metrics.successful_requests > 0
    /\ metrics.failed_requests > 0

\* C3 as stated: with an empty endpoint list or zero concurrent users no task
\* is ever launched and run_benchmark never returns an aggregate.
C3_InvalidConfigRejected ==
    (config.concurrent_users = 0 \/ config.endpoints = << >>) =>
        /\ spawned = 0
        /\ result # "Ok"

\* C4: run_benchmark never ends in an error; when it returns, every task has
\* terminated, the aggregate is finalized at that instant, and it holds every
\* sample of every task that returned normally, whatever happened to the others.
C4_TaskFailureIsolated ==
    /\ result \in {"none", "Ok"}
    /\ result = "Ok" =>
         /\ \A i \in Users : i < config.concurrent_users => Terminated(i)
         /\ metrics.request_metrics = ReturnedSamples(config.concurrent_users)
         /\ metrics.end_time = now

\* a returned run in which one task panicked and a sibling's samples are the aggregate
C4_Witness ==
    /\ result = "Ok"
    /\ \E i, j \in Users :
         /\ wpc[i] = "panicked"
         /\ wpc[j] = "returned"
         /\ Len(user_metrics[j]) > 0
         /\ metrics.total_requests = Len(user_metrics[j])

\* C5 as stated: once run_benchmark has returned, the aggregate also holds the
\* samples a failed task had recorded before it failed.
C5_PartialSamplesMerged ==
    result = "Ok" =>
        metrics.total_requests = Len(ProducedSamples(config.concurrent_users))

\* C6: when the request of a task resolves to a transport failure, the task
\* pushes exactly one sample with status 0, size 0 and success = false, spanning
\* the request, and goes on to its 10 ms pause; a task leaves that pause only
\* into the loop condition, which sends the next request while the duration has
\* not elapsed and returns the samples otherwise.
C6_TransportFailureIsData ==
    [][ \A i \in Users :
          /\ (wpc[i] = "inflight" /\ ~inflight[i].answer.ok /\ wpc'[i] # "inflight") =>
                /\ wpc'[i] = "pause"
                /\ wake'[i] = now + PauseMs
                /\ user_metrics'[i] =
                       Append(user_metrics[i],
                              [ start_time |-> inflight[i].request_start,
                                end_time |-> now,
                                status_code |-> 0,
                                response_size |-> 0,
                                endpoint |-> inflight[i].path,
                                success |-> FALSE ])
          /\ (wpc[i] = "pause" /\ wpc'[i] # "pause") =>
                /\ user_metrics'[i] = user_metrics[i]
                /\ wpc'[i] = IF now - user_start[i] < benchmark_duration(config)
                             THEN "inflight" ELSE "returned"
      ]_vars

\* a task that recorded a transport failure and has sent its next request
C6_Witness ==
    \E i \in Users :
        /\ wpc[i] = "inflight"
        /\ Len(user_metrics[i]) > 0
        /\ IsTransportFailure(user_metrics[i][Len(user_metrics[i])])

AllTransportFailures(seq) == \A j \in 1..Len(seq) : IsTransportFailure(seq[j])

\* C7: a run in which every request of every task met a transport failure
\* returns an aggregate with no success, failed_requests = total_requests and
\* success_rate 0, and, if any request was made, an error histogram that is not
\* empty.
C7_AllFailedStillUsable ==
    (result # "none" /\ AllTransportFailures(ProducedSamples(config.concurrent_users))) =>
        /\ result = "Ok"
        /\ metrics.successful_requests = 0
        /\ metrics.failed_requests = metrics.total_requests
        /\ success_rate(metrics) = Zero
        /\ Len(ProducedSamples(config.concurrent_users)) > 0 =>
               /\ metrics.total_requests > 0
               /\ DOMAIN metrics.error_counts # {}

\* a returned run of two or more requests, all of them transport failures
C7_Witness ==
    /\ result = "Ok"
    /\ AllTransportFailures(ProducedSamples(config.concurrent_users))
    /\ metrics.total_requests >= 2
    /\ metrics.failed_requests = metrics.total_requests

\* C8 as stated: an aggregate without samples has requests_per_second,
\* average_response_time_ms, success_rate and throughput_mb_per_second all 0.
C8_EmptyAggregateAllZero ==
    metrics.total_requests = 0 =>
        /\ requests_per_second(metrics) = Zero
        /\ average_response_time_ms(metrics) = Zero
        /\ success_rate(metrics) = Zero
        /\ throughput_mb_per_second(metrics) = Zero

\* C9 as stated: with a single-endpoint list the selector never fails and every
\* request goes to that endpoint.
C9_SingleEndpointAlwaysSelected ==
    Len(config.endpoints) = 1 =>
        \A i \in Users :
            /\ wpc[i] # "panicked"
            /\ wpc[i] = "inflight" => inflight[i].path = config.endpoints[1].path

Percentiles == {0, 25, 50, 75, 95, 99, 100}

DurationsOf(m) == [j \in 1..Len(m.request_metrics) |-> duration_ms(m.request_metrics[j])]

\* value has rank k among the durations d in ascending order: it is one of
\* them, at most k of them are shorter and more than k are not longer
HasRank(d, value, k) ==
    /\ \E j \in 1..Len(d) : d[j] = value
    /\ Cardinality({j \in 1..Len(d) : d[j] < value}) <= k
    /\ Cardinality({j \in 1..Len(d) : d[j] <= value}) > k

\* C10 as stated: over a non-empty aggregate of count samples,
\* percentile_response_time_ms(p) is the duration of rank
\* min(floor(p * count / 100), count - 1) in ascending order, for every p; for
\* p = 100 it is the longest duration and for p = 0 the shortest.
C10_NearestRankPercentile ==
    ranked.called =>
        LET d == DurationsOf(metrics)
            count == Len(d)
            p == ranked.percentile
        IN  /\ HasRank(d, ranked.value, Min2((p * count) \div 100, count - 1))
            /\ p = 100 => \A j \in 1..count : d[j] <= ranked.value
            /\ p = 0 => \A j \in 1..count : ranked.value <= d[j]

\* the (percentile, count) with count < 90 at which percentile * count / 100 is
\* a whole number k and the f64 product (percentile / 100.0) * count is the
\* double below k: 0.58 is stored as 0.57999999999999996 and 50 times that
\* rounds to 28.999999999999996
RoundsBelow == { <<58, 50>> }

\* C10, amended: the rank is the f64 product (p / 100.0) * count truncated,
\* clamped to count - 1.  That is floor(p * count / 100) except at the pairs of
\* RoundsBelow, where it is one less; for p = 100 the result is the longest
\* duration and for p = 0 the shortest.
C10_RankOfRoundedProduct ==
    ranked.called =>
        LET d == DurationsOf(metrics)
            count == Len(d)
            p == ranked.percentile
            floor == (p * count) \div 100
            k == IF <<p, count>> \in RoundsBelow THEN floor - 1 ELSE floor
        IN  /\ HasRank(d, ranked.value, Min2(k, count - 1))
            /\ p = 100 => \A j \in 1..count : d[j] <= ranked.value
            /\ p = 0 => \A j \in 1..count : ranked.value <= d[j]

\* the 58th percentile of 50 samples of 50, 49, ..., 1 ms is 29 ms, the
\* duration at index 28, where floor(58 / 100 * 50) = 29 is the index of 30 ms
C10_Witness ==
    /\ ranked.called
    /\ ranked.percentile = 58
    /\ Len(metrics.request_metrics) = 50
    /\ \A j \in 1..50 : duration_ms(metrics.request_metrics[j]) = 51 - j
    /\ ranked.value = 29

\* every sample the run merged is a transport failure that ran into the timeout
AllTimedOut ==
    \A k \in 1..Len(metrics.request_metrics) :
        /\ IsTransportFailure(metrics.request_metrics[k])
        /\ duration_ms(metrics.request_metrics[k]) = RequestTimeoutMs

\* C11: no request outlasts the per-request timeout, and under fair scheduling
\* every run reaches the point where every task has terminated and
\* run_benchmark has returned the aggregate, finalized at the instant of return
C11_RunNeverHangs ==
    /\ [](\A i \in Users :
            wpc[i] = "inflight" => wake[i] - inflight[i].request_start <= RequestTimeoutMs)
    /\ <>( /\ result = "Ok"
           /\ \A i \in Users : i < config.concurrent_users => Terminated(i)
           /\ metrics.end_time = now )

\* a run has returned although no request of it was ever answered
C11_Witness ==
    /\ result = "Ok"
    /\ metrics.total_requests > 0
    /\ AllTimedOut

\* diff is ((winner - loser) / loser) * 100 read as |winner - loser| / loser * 100,
\* for means winner_sum / winner_len and loser_sum / loser_len
IsPercentOfLoser(diff, winner_sum, winner_len, loser_sum, loser_len) ==
    LET w == winner_sum * loser_len
        l == loser_sum * winner_len
        gap == IF w > l THEN w - l ELSE l - w
    IN  IF l = 0
        THEN diff = (IF gap = 0 THEN NaN ELSE Inf)
        ELSE diff = Num(100 * gap, l)

\* the printed tenths are the nearest ones to diff
IsNearestTenth(text, diff) ==
    IF diff.k # "num" THEN text = diff.k
    ELSE LET over == (text - 10 * (diff.n \div diff.d)) * diff.d - 10 * (diff.n % diff.d)
         IN  2 * over <= diff.d /\ 2 * (0 - over) <= diff.d

\* a finite f64 that is a whole number of tenths, in tenths
Tenths(x) == (x.n * 10) \div x.d

\* the sum of a field over a result list, in tenths
RECURSIVE SumTenths(_, _)
SumTenths(results, f) ==
    IF results = << >> THEN 0 ELSE Tenths(Head(results)[f]) + SumTenths(Tail(results), f)

\* a call of generate_comparison_report has just returned comparison'.report
ReportReturned == comparison'.report # comparison.report

\* No result was added since the report was returned.  The report lists every
\* result it was generated from, so this can be read off the report.
ReportIsCurrent ==
    /\ comparison.report.generated
    /\ comparison.report.axum_details = DetailSection(comparison.axum_results)
    /\ comparison.report.loco_details = DetailSection(comparison.loco_results)

WinnerAndDifference ==
    (comparison.report.generated /\ comparison.report.analysis.present) =>
        LET a == comparison.axum_results
            l == comparison.loco_results
            an == comparison.report.analysis
            a_rps == SumTenths(a, "requests_per_second")
            l_rps == SumTenths(l, "requests_per_second")
            a_rt == SumTenths(a, "average_response_time_ms")
            l_rt == SumTenths(l, "average_response_time_ms")
        IN  /\ a_rps * Len(l) > l_rps * Len(a) => an.throughput_winner = "AXUM"
            /\ a_rps * Len(l) < l_rps * Len(a) => an.throughput_winner = "LOCO"
            /\ a_rt * Len(l) < l_rt * Len(a) => an.response_winner = "AXUM"
            /\ a_rt * Len(l) > l_rt * Len(a) => an.response_winner = "LOCO"
            /\ an.throughput_winner \in {"AXUM", "LOCO"}
            /\ an.response_winner \in {"AXUM", "LOCO"}
            /\ IF an.throughput_winner = "AXUM"
               THEN IsPercentOfLoser(an.throughput_diff, a_rps, Len(a), l_rps, Len(l))
               ELSE IsPercentOfLoser(an.throughput_diff, l_rps, Len(l), a_rps, Len(a))
            /\ IF an.response_winner = "AXUM"
               THEN IsPercentOfLoser(an.response_diff, a_rt, Len(a), l_rt, Len(l))
               ELSE IsPercentOfLoser(an.response_diff, l_rt, Len(l), a_rt, Len(a))
            /\ IsNearestTenth(an.throughput_text, an.throughput_diff)
            /\ IsNearestTenth(an.response_text, an.response_diff)
            /\ (Len(a) = 1 /\ Len(l) = 1 /\ a_rps = 154205 /\ l_rps = 148502) =>
                   /\ an.throughput_winner = "AXUM"
                   /\ an.throughput_diff = Num(570300, 148502)
                   /\ an.throughput_text = 38

\* C12: a report over two non-empty result lists names the framework with the
\* higher mean requests_per_second the throughput winner and the one with the
\* lower mean average_response_time_ms the response-time winner; each printed
\* difference is |winner - loser| / loser * 100, to the nearest tenth; means
\* 15420.5 and 14850.2 make the first the winner by 5703 / 14850.2 percent.
\* This holds of a report as long as no result is added after it.
C12_WinnerAndDifference == ReportIsCurrent => WinnerAndDifference

\* the report of the example: one AXUM result at 15420.5 req/s, one LOCO result
\* at 14850.2 req/s, AXUM also the slower one in response time
C12_Witness ==
    /\ comparison.report.generated
    /\ Len(comparison.axum_results) = 1
    /\ Len(comparison.loco_results) = 1
    /\ comparison.axum_results[1].requests_per_second = Num(154205, 10)
    /\ comparison.loco_results[1].requests_per_second = Num(148502, 10)
    /\ comparison.report.analysis.present
    /\ ReportIsCurrent
    /\ comparison.report.analysis.throughput_winner = "AXUM"
    /\ comparison.report.analysis.response_winner = "LOCO"
    /\ comparison.report.analysis.response_diff = Num(100, 1)

\* C13: a returned run with duration_seconds > 0 and at least one worker, all of
\* whose requests were answered with a 2xx status, has total_requests > 0, at
\* least one sample from every worker, failed_requests = 0, an empty error
\* histogram and success_rate = 100
C13_AllSuccessRun ==
    ( /\ result = "Ok"
      /\ config.duration_seconds > 0
      /\ config.concurrent_users >= 1
      /\ \A k \in 1..Len(metrics.request_metrics) :
            /\ metrics.request_metrics[k].status_code >= 200
            /\ metrics.request_metrics[k].status_code <= 299 )
    => ( /\ metrics.total_requests > 0
         /\ \A i \in Users : i < config.concurrent_users => Len(user_metrics[i]) >= 1
         /\ metrics.failed_requests = 0
         /\ DOMAIN metrics.error_counts = {}
         /\ success_rate(metrics) = Num(100, 1) )

\* C15: every scenario config built carries the four arguments unchanged, the
\* first one (health) has exactly one endpoint, "/health", and none of the four
\* has an empty endpoint list
C15_FactoriesPassArguments ==
    \A k \in 1..Len(scenarios.built) :
        LET c == scenarios.built[k].config
        IN  /\ c.target_url = scenarios.base_url
            /\ c.concurrent_users = scenarios.users
            /\ c.duration_seconds = scenarios.duration
            /\ c.ramp_up_seconds = scenarios.ramp_up
            /\ Len(c.endpoints) >= 1
            /\ k = 1 => (Len(c.endpoints) = 1 /\ c.endpoints[1].path = "/health")

\* the four scenarios built from the arguments of the repository's own test
C15_Witness ==
    /\ Len(scenarios.built) = 4
    /\ scenarios.base_url = "http://localhost:3000"
    /\ scenarios.users = 100
    /\ scenarios.duration = 60
    /\ scenarios.ramp_up = 10
    /\ scenarios.built[1].test_name = "Health Check"
    /\ Len(scenarios.built[4].config.endpoints) = 4

\* the sum of the first j weights
PrefixWeight(endpoints, j) == TotalWeight(SubSeq(endpoints, 1, j))

\* a call of the selector has returned
HasSelected == selected.called /\ ~selected.panicked

\* no endpoint brings the running remainder of the draw to <= 0
FellThrough ==
    \A j \in 1..Len(config.endpoints) :
        selected.random_value - PrefixWeight(config.endpoints, j) > 0

C17_FallbackIsLast ==
    (HasSelected /\ FellThrough) => selected.idx = Len(config.endpoints)

\* C17: after a loop that found no endpoint the selector returns the first
\* endpoint of the list
C17_FallbackIsFirst ==
    (HasSelected /\ FellThrough) => selected.idx = 1

\* the loop fell through on a list of three endpoints
C17_Witness ==
    /\ HasSelected
    /\ FellThrough
    /\ Len(config.endpoints) = 3
    /\ selected.idx = 1

\* C18: the tasks launched so far are exactly those of the user ids
\* 0 .. spawned-1, never more than concurrent_users; the join loop starts once
\* all are launched and awaits them one per step, each terminated task once, in
\* launch order; run_benchmark returns only with concurrent_users tasks
\* launched and all of them awaited
C18_AllLaunchedAllJoined ==
    /\ []( /\ spawned <= config.concurrent_users
           /\ joined <= spawned
           /\ {i \in Users : wpc[i] # "unspawned"} = 0..(spawned - 1)
           /\ joined > 0 => spawned = config.concurrent_users
           /\ result # "none" =>
                 /\ spawned = config.concurrent_users
                 /\ joined = config.concurrent_users )
    /\ [][ /\ spawned' # spawned =>
                 /\ spawned' = spawned + 1
                 /\ wpc[spawned] = "unspawned"
                 /\ wpc'[spawned] # "unspawned"
                 /\ wake'[spawned] = now + user_start_delay(config, spawned)
           /\ joined' # joined =>
                 /\ joined' = joined + 1
                 /\ Terminated(joined)
           /\ result # "none" => (joined' = joined /\ spawned' = spawned) ]_vars

\* a run of two workers has returned, both awaited
C18_Witness ==
    /\ result = "Ok"
    /\ config.concurrent_users = 2
    /\ spawned = 2
    /\ joined = 2
    /\ \A i \in Users : Terminated(i)

\* C19: a task sends a request only at a loop check that saw less than
\* duration_seconds elapsed since its own user_start; a check that sees
\* duration_seconds or more elapsed ends the task with the samples it has; a
\* request in flight is always completed into a sample, however long after the
\* duration it resolves
C19_LoopBoundedByWallClock ==
    [][ \A i \in Users :
          /\ (wpc[i] \in {"delay", "pause"} /\ wpc'[i] = "inflight") =>
                /\ now - user_start'[i] < config.duration_seconds * MsPerSecond
                /\ inflight'[i].request_start = now
          /\ (wpc[i] \in {"delay", "pause"} /\ wpc'[i] # wpc[i]
                /\ now - user_start'[i] >= config.duration_seconds * MsPerSecond) =>
                /\ wpc'[i] = "returned"
                /\ user_metrics'[i] = IF wpc[i] = "delay" THEN << >> ELSE user_metrics[i]
          /\ (wpc[i] # "returned" /\ wpc'[i] = "returned") =>
                now - user_start'[i] >= config.duration_seconds * MsPerSecond
          /\ (wpc[i] = "inflight" /\ wpc'[i] # "inflight") =>
                /\ wpc'[i] = "pause"
                /\ Len(user_metrics'[i]) = Len(user_metrics[i]) + 1
                /\ SubSeq(user_metrics'[i], 1, Len(user_metrics[i])) = user_metrics[i]
                /\ user_metrics'[i][Len(user_metrics'[i])].start_time = inflight[i].request_start
                /\ user_metrics'[i][Len(user_metrics'[i])].end_time = now
      ]_vars

\* a task has returned with a sample of a request that resolved after the
\* duration had elapsed, and its samples have been merged
C19_Witness ==
    \E i \in Users :
        /\ wpc[i] = "returned"
        /\ user_metrics[i] # << >>
        /\ user_metrics[i][Len(user_metrics[i])].start_time - user_start[i]
               < config.duration_seconds * MsPerSecond
        /\ user_metrics[i][Len(user_metrics[i])].end_time - user_start[i]
               > config.duration_seconds * MsPerSecond
        /\ joined > i
        /\ metrics.total_requests >= Len(user_metrics[i])

\* the delay of user id i is i times the whole number of milliseconds that fits
\* concurrent_users times into the ramp-up, the first delay is 0 and the delays
\* do not decrease
DelaysFollowFormula ==
    \A k \in 1..Len(delays) :
        /\ \E q \in 0..(config.ramp_up_seconds * MsPerSecond) :
              /\ q * config.concurrent_users <= config.ramp_up_seconds * MsPerSecond
              /\ (q + 1) * config.concurrent_users > config.ramp_up_seconds * MsPerSecond
              /\ delays[k] = q * (k - 1)
        /\ k = 1 => delays[k] = 0
        /\ k > 1 => delays[k - 1] <= delays[k]

\* C20 as stated: the delays follow the formula and every one of them is
\* strictly less than ramp_up_seconds * 1000
C20_DelayStrictlyBelowRampUp ==
    /\ DelaysFollowFormula
    /\ \A k \in 1..Len(delays) : delays[k] < config.ramp_up_seconds * MsPerSecond

\* C20: the delays follow the formula; with ramp_up_seconds > 0 every one of
\* them is strictly less than ramp_up_seconds * 1000, with ramp_up_seconds = 0
\* every one of them is 0
C20_DelayWithinRampUp ==
    /\ DelaysFollowFormula
    /\ \A k \in 1..Len(delays) :
          IF config.ramp_up_seconds > 0
          THEN delays[k] < config.ramp_up_seconds * MsPerSecond
          ELSE delays[k] = 0

\* seven workers over a ramp-up of one second: the last one waits 6 * 142 ms,
\* not 6000 / 7 ms
C20_Witness ==
    /\ config.concurrent_users = 7
    /\ config.ramp_up_seconds = 1
    /\ Len(delays) = 7
    /\ delays[7] = 852

\* C21: with ramp_up_seconds > 0 and more than one worker, a worker with a
\* larger user id has a strictly larger start delay
C21_StaggeredStarts ==
    (config.ramp_up_seconds > 0 /\ config.concurrent_users > 1) =>
        \A j \in 1..Len(delays) : \A k \in 1..Len(delays) :
            j < k => delays[j] < delays[k]

\* C22: the end timestamp is written in one step only, the step in which
\* run_benchmark returns, which comes after every task has been awaited and
\* changes nothing else of the aggregate; no step before it touches the end
\* timestamp, and after it the aggregate does not change any more
C22_FinalizedOnceAfterMerge ==
    /\ []( result # "none" =>
             /\ joined = config.concurrent_users
             /\ metrics.end_time = now )
    /\ [][ /\ (result = "none" /\ result' # "none") =>
                 /\ joined = config.concurrent_users
                 /\ metrics' = [metrics EXCEPT !.end_time = now']
           /\ metrics'.end_time # metrics.end_time => (result = "none" /\ result' # "none")
           /\ result # "none" => metrics' = metrics
           /\ metrics'.request_metrics # metrics.request_metrics => result' = "none" ]_vars

\* a returned aggregate with merged samples, finalized later than it was created
C22_Witness ==
    /\ result = "Ok"
    /\ metrics.total_requests >= 2
    /\ metrics.end_time > metrics.start_time
    /\ metrics.end_time = now

\* the number of stored failed samples with this status
FailedWithStatus(m, status) ==
    Cardinality({j \in 1..Len(m.request_metrics) :
                    ~m.request_metrics[j].success /\ m.request_metrics[j].status_code = status})

\* the count under a key, 0 for a key that is not there
HistogramCount(ec, key) == IF key \in DOMAIN ec THEN ec[key] ELSE 0

RECURSIVE SumOfCounts(_, _)
SumOfCounts(ec, keys) ==
    IF keys = {} THEN 0
    ELSE LET key == CHOOSE x \in keys : TRUE IN ec[key] + SumOfCounts(ec, keys \ {key})

\* C23: the histogram has a key only for a status some stored failure has,
\* "HTTP_500" counts the stored failures with status 500 and "HTTP_0" the
\* stored transport failures, the counts add up to failed_requests; adding a
\* successful sample leaves the histogram as it is, adding a failed one
\* raises the count of its own key by one and no other
C23_HistogramCountsFailures ==
    /\ []( /\ DOMAIN metrics.error_counts \subseteq {"HTTP_500", "HTTP_0"}
           /\ \A key \in DOMAIN metrics.error_counts : metrics.error_counts[key] >= 1
           /\ HistogramCount(metrics.error_counts, "HTTP_500") = FailedWithStatus(metrics, 500)
           /\ HistogramCount(metrics.error_counts, "HTTP_0") = FailedWithStatus(metrics, 0)
           /\ SumOfCounts(metrics.error_counts, DOMAIN metrics.error_counts)
                  = metrics.failed_requests )
    /\ [][ Len(metrics'.request_metrics) = Len(metrics.request_metrics) + 1 =>
             LET s == metrics'.request_metrics[Len(metrics'.request_metrics)]
                 key == IF s.status_code = 500 THEN "HTTP_500"
                        ELSE IF s.status_code = 0 THEN "HTTP_0" ELSE "HTTP_200"
             IN  IF s.success
                 THEN metrics'.error_counts = metrics.error_counts
                 ELSE /\ HistogramCount(metrics'.error_counts, key)
                             = HistogramCount(metrics.error_counts, key) + 1
                      /\ \A other \in {"HTTP_500", "HTTP_0", "HTTP_200"} \ {key} :
                             HistogramCount(metrics'.error_counts, other)
                                 = HistogramCount(metrics.error_counts, other) ]_vars

\* successes, server errors and transport failures folded, the histogram
\* holding two of one kind and one of the other
C23_Witness ==
    /\ Len(metrics.request_metrics) = 4
    /\ metrics.successful_requests = 1
    /\ DOMAIN metrics.error_counts = {"HTTP_500", "HTTP_0"}
    /\ metrics.error_counts["HTTP_500"] = 2
    /\ metrics.error_counts["HTTP_0"] = 1
    /\ metrics.request_metrics[4].success

RECURSIVE SumOfSizes(_)
SumOfSizes(seq) ==
    IF seq = << >> THEN 0 ELSE Head(seq).response_size + SumOfSizes(Tail(seq))

\* C24: total_requests is the number of stored samples, successful_requests
\* the number of stored samples with success = true, and total_bytes_received
\* the sum of the stored samples' response sizes
C24_TotalsMatchSamples ==
    /\ metrics.total_requests = Len(metrics.request_metrics)
    /\ metrics.successful_requests =
           Cardinality({j \in 1..Len(metrics.request_metrics) : metrics.request_metrics[j].success})
    /\ metrics.total_bytes_received = SumOfSizes(metrics.request_metrics)

\* four samples folded, two of them successes with a body, two of them failures
C24_Witness ==
    /\ Len(metrics.request_metrics) = 4
    /\ metrics.total_requests = 4
    /\ metrics.successful_requests = 2
    /\ metrics.failed_requests = 2
    /\ metrics.total_bytes_received = 4
    /\ ~metrics.request_metrics[1].success

\* the samples of the awaited tasks among 0 .. k-1, in increasing task order
RECURSIVE AwaitedSamples(_)
AwaitedSamples(k) ==
    IF k = 0 THEN << >>
    ELSE AwaitedSamples(k - 1) \o (IF wpc[k - 1] = "joined" THEN user_metrics[k - 1] ELSE << >>)

\* the aggregate of the awaited tasks had they been merged in task order
MergedInTaskOrder == FoldRequests(BenchmarkMetrics_new("AXUM", 0, 0), AwaitedSamples(MaxUsers))

\* C25: in whichever order tasks have been merged, the counts, the bytes, the
\* error histogram, the average and every percentile are those of the merge
\* of the same tasks in task order
C25_MergeOrderIndependent ==
    /\ metrics.total_requests = MergedInTaskOrder.total_requests
    /\ metrics.successful_requests = MergedInTaskOrder.successful_requests
    /\ metrics.failed_requests = MergedInTaskOrder.failed_requests
    /\ metrics.total_bytes_received = MergedInTaskOrder.total_bytes_received
    /\ metrics.error_counts = MergedInTaskOrder.error_counts
    /\ average_response_time_ms(metrics) = average_response_time_ms(MergedInTaskOrder)
    /\ \A p \in Percentiles :
          percentile_response_time_ms(metrics, p)
              = percentile_response_time_ms(MergedInTaskOrder, p)

\* every task merged, the last one first, so that the stored samples are in
\* another order than the task order, with unequal durations
C25_Witness ==
    /\ joined = MaxUsers
    /\ metrics.request_metrics # MergedInTaskOrder.request_metrics
    /\ Len(metrics.request_metrics) >= 2
    /\ percentile_response_time_ms(metrics, 0) # percentile_response_time_ms(metrics, 100)
    /\ DOMAIN metrics.error_counts = {"HTTP_500", "HTTP_0"}

\* the summary row and the detail section of a result list in the report: both
\* are there exactly when the list is not empty, the row holding the mean
\* requests_per_second and average_response_time_ms and the section each result
RowAndSectionMatch(row, section, results) ==
    /\ row.some <=> results # << >>
    /\ section.present <=> results # << >>
    /\ results # << >> =>
          /\ row.requests_per_second
                 = Num(SumTenths(results, "requests_per_second"), 10 * Len(results))
          /\ row.average_response_time_ms
                 = Num(SumTenths(results, "average_response_time_ms"), 10 * Len(results))
          /\ section.entries = results

EmptyListsSkipped ==
    comparison.report.generated =>
        /\ RowAndSectionMatch(comparison.report.axum_row, comparison.report.axum_details,
                              comparison.axum_results)
        /\ RowAndSectionMatch(comparison.report.loco_row, comparison.report.loco_details,
                              comparison.loco_results)
        /\ comparison.report.analysis.present <=>
               (comparison.axum_results # << >> /\ comparison.loco_results # << >>)

\* C26: a report is generated for any two result lists; a framework's summary
\* row (its means) and detail section are in it exactly when its list is not
\* empty, and the winner analysis exactly when neither list is empty.  This
\* holds of every report at the moment it is returned.
C26_EmptyListsSkipped == [][ReportReturned => EmptyListsSkipped']_vars

\* a report generated with no AXUM result and two LOCO results
C26_Witness ==
    /\ comparison.report.generated
    /\ comparison.report.loco_details = DetailSection(comparison.loco_results)
    /\ comparison.axum_results = << >>
    /\ Len(comparison.loco_results) = 2
    /\ ~comparison.report.axum_row.some
    /\ ~comparison.report.axum_details.present
    /\ comparison.report.loco_row.some
    /\ ~comparison.report.analysis.present

\* C27: the aggregate's samples are at every moment those of the tasks awaited
\* so far that returned normally, task after task in increasing user id, each
\* task's samples in the order the task produced them, one request ending
\* before the next one starts
C27_SamplesInTaskOrder ==
    /\ metrics.request_metrics = ReturnedSamples(joined)
    /\ result = "Ok" => metrics.request_metrics = ReturnedSamples(config.concurrent_users)
    /\ \A i \in Users : \A j \in 1..Len(user_metrics[i]) : \A k \in 1..Len(user_metrics[i]) :
          j < k => user_metrics[i][j].end_time <= user_metrics[i][k].start_time

\* task 1 finished long before task 0 and the aggregate still starts with the
\* samples of task 0
C27_Witness ==
    /\ result = "Ok"
    /\ config.concurrent_users = 2
    /\ wpc[0] = "returned" /\ wpc[1] = "returned"
    /\ Len(user_metrics[0]) >= 2
    /\ user_metrics[1] # << >>
    /\ user_metrics[1][Len(user_metrics[1])].end_time
           < user_metrics[0][Len(user_metrics[0])].end_time
    /\ metrics.request_metrics = user_metrics[0] \o user_metrics[1]

\* the j-th run of a comparison: the four scenarios against AXUM, then against LOCO
NthRun(j) ==
    [ framework |-> IF j <= ScenarioCount THEN "AXUM" ELSE "LOCO",
      test_name |-> Scenario(((j - 1) % ScenarioCount) + 1, "", 0, 0, 0).test_name ]

RunOf(entry) == [framework |-> entry.framework, test_name |-> entry.test_name]

\* no task of a run is alive and every task spawned was awaited
AllWorkersJoined ==
    /\ \A i \in Users : ~Running(i)
    /\ joined = spawned

\* C28: benchmark runs of the comparison tool never overlap.  Every run that
\* was started has returned (Ok or Err) before the next one starts, with all
\* its workers awaited and none alive; the runs are started in the order Health
\* Check, REST API, GraphQL, Mixed Load, first all four against AXUM and then
\* all four against LOCO, and every AXUM run has ended before the first LOCO
\* run starts.
C28_RunsNeverOverlap ==
    /\ tool.pc # "idle"
    /\ tool.pc # "running" => AllWorkersJoined
    /\ (tool.pc = "running" /\ result = "Ok") =>
           (AllWorkersJoined /\ spawned = config.concurrent_users)
    /\ Len(tool.log) <= 4 * ScenarioCount
    /\ \A i \in 1..Len(tool.log) :
          IF i % 2 = 1
          THEN /\ tool.log[i].event = "start"
               /\ RunOf(tool.log[i]) = NthRun((i + 1) \div 2)
          ELSE /\ tool.log[i].event \in {"ok", "err"}
               /\ RunOf(tool.log[i]) = RunOf(tool.log[i - 1])
    /\ \A i, j \in 1..Len(tool.log) :
          (tool.log[i].framework = "AXUM" /\ tool.log[j].framework = "LOCO") => i < j
    /\ (tool.pc = "running") = (Len(tool.log) % 2 = 1)

\* all eight runs of a comparison were started and the last one has just
\* returned, with every worker awaited, the last of them started after its
\* ramp-up delay
C28_Witness ==
    /\ tool.pc = "running"
    /\ result = "Ok"
    /\ joined = MaxUsers
    /\ metrics.end_time - metrics.start_time >= user_start_delay(config, MaxUsers - 1)
    /\ user_start_delay(config, MaxUsers - 1) > 0
    /\ Len(tool.log) = 4 * ScenarioCount - 1
    /\ tool.log[2 * ScenarioCount].framework = "AXUM"
    /\ tool.log[2 * ScenarioCount + 1] = [framework |-> "LOCO", test_name |-> "Health Check", event |-> "start"]

\* the runs against a framework that the log has as returned Ok, in the order
\* of the log
RECURSIVE OkRuns(_, _)
OkRuns(log, framework) ==
    IF log = << >> THEN << >>
    ELSE LET rest == OkRuns(Tail(log), framework)
         IN  IF Head(log).event = "ok" /\ Head(log).framework = framework
             THEN <<RunOf(Head(log))>> \o rest
             ELSE rest

\* the runs a list of results is of
RunsOf(results) == [i \in 1..Len(results) |-> RunOf(results[i])]

Started(framework) ==
    Cardinality({i \in 1..Len(tool.log) :
                    tool.log[i].event = "start" /\ tool.log[i].framework = framework})

AxumReturned == tool.framework = "LOCO" \/ tool.pc = "between"
LocoReturned == tool.pc \in {"report", "save", "done"}

ResultsKept ==
    /\ RunsOf(comparison.axum_results) = IF AxumReturned THEN OkRuns(tool.log, "AXUM") ELSE << >>
    /\ RunsOf(comparison.loco_results) = IF LocoReturned THEN OkRuns(tool.log, "LOCO") ELSE << >>
    /\ tool.pc \in {"scenario", "running", "pause"}
          => RunsOf(tool.results) = OkRuns(tool.log, tool.framework)
    /\ AxumReturned => Started("AXUM") = ScenarioCount
    /\ LocoReturned => Started("LOCO") = ScenarioCount
    /\ comparison.report.generated = (tool.pc \in {"save", "done"})

\* C29: a failing scenario does not stop the comparison.  A run that returns an
\* error contributes no BenchmarkResult; all four scenarios of a framework are
\* started whatever the earlier ones returned, and the list of each framework
\* holds exactly one result for each of its own scenarios that returned Ok, in
\* the order they ran; LOCO is benchmarked whatever AXUM's runs returned; and
\* run_comparison always reaches the generation of the report.
C29_FailuresDoNotStopComparison ==
    /\ []ResultsKept
    /\ [][(tool.pc = "running" /\ result = "Ok" /\ tool'.pc # "running")
              => tool'.results = Append(tool.results,
                                        to_benchmark_result(metrics, Current.test_name))]_vars
    /\ <>(comparison.report.generated /\ Started("LOCO") = ScenarioCount)

\* every run against AXUM failed and so did LOCO's REST API run: the report is
\* generated from no AXUM result and LOCO's three other results
C29_Witness ==
    /\ tool.pc = "done"
    /\ comparison.report.generated
    /\ \A i \in 1..Len(tool.log) :
          tool.log[i].framework = "AXUM" => tool.log[i].event \in {"start", "err"}
    /\ \E i \in 1..Len(tool.log) :
          tool.log[i] = [framework |-> "LOCO", test_name |-> "REST API", event |-> "err"]
    /\ comparison.axum_results = << >>
    /\ Len(comparison.loco_results) = ScenarioCount - 1
    /\ \A i \in 1..Len(comparison.loco_results) :
          /\ comparison.loco_results[i].framework = "LOCO"
          /\ comparison.loco_results[i].test_name # "REST API"

TieGoesToLocoAtZeroPercent ==
    comparison.report.generated =>
        LET a == comparison.axum_results
            l == comparison.loco_results
            an == comparison.report.analysis
        IN  /\ an.present = (a # << >> /\ l # << >>)
            /\ an.present =>
                  /\ an.throughput_winner \in {"AXUM", "LOCO"}
                  /\ an.response_winner \in {"AXUM", "LOCO"}
                  /\ (SumTenths(a, "requests_per_second") * Len(l)
                         = SumTenths(l, "requests_per_second") * Len(a)) =>
                        /\ an.throughput_winner = "LOCO"
                        /\ an.throughput_diff = Zero
                        /\ an.throughput_text = 0
                  /\ (SumTenths(a, "average_response_time_ms") * Len(l)
                         = SumTenths(l, "average_response_time_ms") * Len(a)) =>
                        /\ an.response_winner = "LOCO"
                        /\ an.response_diff = Zero
                        /\ an.response_text = 0

\* C30: two frameworks with exactly equal means for a metric: the report names
\* LOCO the winner of that metric with a difference of 0 percent (printed
\* 0.0); and a report over two non-empty result lists has exactly one winner
\* for throughput and one for response time.  This is to hold of a report as
\* long as no result is added after it.
C30_TieGoesToLocoAtZeroPercent == ReportIsCurrent => TieGoesToLocoAtZeroPercent

====
